---- MODULE Spec2Model ----
(***************************************************************************)
(* Model of the learning core of progressive_sac.py:                       *)
(*   PrioritizedReplayBuffer  (variable rb),                               *)
(*   ProgressiveNetwork       (variable net),                              *)
(*   ProgressiveSAC           (variable agent, with its checkpoint file    *)
(*                             in variable disk; a second agent, built by  *)
(*                             the process that reads the file, in         *)
(*                             variable loaded).                           *)
(* Each class is a record whose fields carry the names of the Python       *)
(* attributes.  ret records the last call made and what it returned or     *)
(* raised; pushed counts the push calls made so far on rb, grown the        *)
(* increase_complexity calls made on net, calls the operations made on the *)
(* agent.                                                                  *)
(***************************************************************************)
EXTENDS Integers, Sequences, FiniteSets, TLC

VARIABLES rb, net, agent, disk, loaded, ret, pushed, grown, calls

vars == <<rb, net, agent, disk, loaded, ret, pushed, grown, calls>>

-----------------------------------------------------------------------------
(* Bounds of the model. *)

MaxCapacity == 2

MaxPushes == 3

MaxBetaFrames == 2

MaxUpdates == 1

MaxStagesArg == 4

MaxGrowCalls == 5

MaxTrainSteps == 1

MaxCalls == 6

StartSteps == 1

AgentBufferSize == 1

MaxLoopCalls == 9

MaxReplayUpdates == 2

MaxDecays == 9164

MaxForwardCalls == 13

LongRun == 5

\* The trainer's agent: the defaults of ProgressiveSAC.__init__ (batch_size
\* 256, update_after 1000, update_every 50, start_steps 10000, buffer_size
\* 1000000) scaled down in their order, batch_size <= update_after <
\* start_steps and batch_size <= buffer_size, and the environment steps the
\* trainer takes.
TrainerBatchSize == 2

TrainerUpdateAfter == 3

TrainerUpdateEvery == 2

TrainerBufferSize == 4

TrainerStartSteps == 10

MaxEnvSteps == 6

-----------------------------------------------------------------------------
(* Values shared by the three classes. *)

\* regime=None, the default of sample (line 69) and select_action (line 496).
None == 0

\* The regime labels pushed and asked for.
Regimes == {1, 2}

\* The priorities handed to update_priorities: zero, the 1.0 of a first
\* push, and a larger one.
PriorityValues == {0, 1, 2}

\* The batch sizes asked for: batch_size // 2 is 0 for the first, 1 for the
\* second.
BatchSizes == {1, 2}

Min(a, b) == IF a < b THEN a ELSE b

\* x in list
InList(x, s) == \E i \in 1..Len(s) : s[i] = x

\* list.remove(x): deletes the first occurrence of x only.
ListRemove(s, x) ==
    LET i == CHOOSE j \in 1..Len(s) : s[j] = x /\ \A k \in 1..(j - 1) : s[k] # x
    IN  SubSeq(s, 1, i - 1) \o SubSeq(s, i + 1, Len(s))

\* The call record: what was called, with what, and how it ended.
NoCall ==
    [op |-> "init", status |-> "ok", regime |-> None, batch_size |-> 0,
     slot |-> 0, indices |-> <<>>, regime_size |-> 0, metric |-> 0,
     snapshot |-> <<>>, returned |-> FALSE, used |-> 0, evaluate |-> FALSE,
     mode |-> "none", mean |-> <<>>, input |-> <<>>, sampled |-> <<>>,
     beta |-> <<>>, weights |-> <<>>, updates |-> <<>>, run |-> 0,
     action |-> <<>>]

-----------------------------------------------------------------------------
(* PrioritizedReplayBuffer *)

\* Transition(state, action, reward, next_state, done, regime): the payload is
\* kept as the ordinal of the push that stored it.
Transition(id, regime) == [id |-> id, regime |-> regime]

\* PrioritizedReplayBuffer.__init__
NewBuffer(capacity, beta_frames) ==
    [capacity       |-> capacity,
     buffer         |-> <<>>,
     position       |-> 0,
     priorities     |-> [i \in 0..(capacity - 1) |-> 0],
     beta_frames    |-> beta_frames,
     frame          |-> 1,
     regime_indices |-> [r \in {} |-> <<>>]]

\* self.priorities.max(): over the whole array, written slots or not.
PrioritiesMax(b) ==
    CHOOSE m \in {b.priorities[i] : i \in DOMAIN b.priorities} :
        \A i \in DOMAIN b.priorities : b.priorities[i] <= m

\* max_prio = 1.0, whatever the buffer holds.
max_prio_default(b) == 1

\* max_prio = self.priorities.max() if self.buffer else 1.0
max_prio(b) == IF Len(b.buffer) > 0 THEN PrioritiesMax(b) ELSE 1

\* lines 58-61: create the regime's list if missing, append the position.
IndexAppend(ri, regime, position) ==
    LET ri1 == [r \in DOMAIN ri \cup {regime} |->
                    IF r \in DOMAIN ri THEN ri[r] ELSE <<>>]
    IN  [ri1 EXCEPT ![regime] = Append(@, position)]

\* lines 63-65: for every other regime that lists the position, one remove().
IndexEvict(ri, regime, position) ==
    [r \in DOMAIN ri |->
        IF r # regime /\ InList(position, ri[r])
        THEN ListRemove(ri[r], position)
        ELSE ri[r]]

\* push that stops advancing at the last slot instead of wrapping around:
\* self.position = min(self.position + 1, self.capacity - 1)
push_overwriting_newest(b, tr) ==
    LET mp   == max_prio(b)
        buf1 == IF Len(b.buffer) < b.capacity
                THEN Append(b.buffer, Transition(0, None))
                ELSE b.buffer
        buf2 == [buf1 EXCEPT ![b.position + 1] = tr]
        ri   == IndexEvict(IndexAppend(b.regime_indices, tr.regime, b.position),
                           tr.regime, b.position)
    IN  [b EXCEPT !.buffer = buf2,
                  !.priorities = [@ EXCEPT ![b.position] = mp],
                  !.regime_indices = ri,
                  !.position = Min(b.position + 1, b.capacity - 1)]

\* PrioritizedReplayBuffer.push
push(b, tr) ==
    LET mp   == max_prio(b)
        buf1 == IF Len(b.buffer) < b.capacity
                THEN Append(b.buffer, Transition(0, None))
                ELSE b.buffer
        buf2 == [buf1 EXCEPT ![b.position + 1] = tr]
        ri   == IndexEvict(IndexAppend(b.regime_indices, tr.regime, b.position),
                           tr.regime, b.position)
    IN  [b EXCEPT !.buffer = buf2,
                  !.priorities = [@ EXCEPT ![b.position] = mp],
                  !.regime_indices = ri,
                  !.position = (b.position + 1) % b.capacity]

\* np.random.choice(a, size, p) with p = w / w.sum(), w = prios ** alpha:
\* x ** 0.6 is 0 at 0 and positive elsewhere, so an element can be drawn iff
\* its priority is positive; when every weight is 0 (or there is none) the
\* division yields NaN and choice raises ValueError.  candidates is the list a
\* (positions, possibly repeated).  The result is the set of possible draws;
\* the empty set stands for the ValueError.
Choice(b, candidates, size) ==
    LET support == {candidates[k] : k \in
                        {j \in 1..Len(candidates) : b.priorities[candidates[j]] > 0}}
    IN  IF support = {} THEN {} ELSE [1..size -> support]

\* range(len(self.buffer)) as a list of positions; prios (lines 71-74) covers
\* exactly these, since position = len(buffer) until the buffer is full.
AllSlots(b) == [k \in 1..Len(b.buffer) |-> k - 1]

\* self.frame = self.frame + 1, without the cap.
NextFrame_uncapped(b) == b.frame + 1

\* self.frame = min(self.frame + 1, self.beta_frames)
NextFrame(b) == Min(b.frame + 1, b.beta_frames)

\* beta_start=0.4, in tenths.
beta_start == 4

\* beta = beta_start + (1.0 - beta_start) * (frame / beta_frames), as the
\* fraction num / den.
Beta(b) ==
    [num |-> beta_start * b.beta_frames + (10 - beta_start) * b.frame,
     den |-> 10 * b.beta_frames]

\* (len(self.buffer) * probs[indices]) ** (-beta), line 98.  The length, the
\* sum that normalised probs and beta are common to the batch, so a weight
\* is named by the priority p it is computed from: it is the positive number
\* (N * p^alpha / sum)^(-beta), which gets smaller as p gets larger.
RawWeights(b, indices) ==
    [k \in 1..Len(indices) |-> b.priorities[indices[k]]]

\* weights.max(): the weight of the smallest priority drawn.
WeightsMax(raw) ==
    CHOOSE m \in {raw[k] : k \in 1..Len(raw)} : \A k \in 1..Len(raw) : m <= raw[k]

\* weights /= weights[0]: the division made by the first weight, not the
\* largest.
Normalised_by_first(raw) ==
    [k \in 1..Len(raw) |-> [prio |-> raw[k], over |-> raw[1]]]

\* weights /= weights.max(), line 99: the weight of priority prio divided by
\* the weight of priority over, (prio / over)^(-alpha * beta); it is 1.0
\* when the two are the same and below 1.0 when prio is larger.
Normalised(raw) ==
    [k \in 1..Len(raw) |-> [prio |-> raw[k], over |-> WeightsMax(raw)]]

\* The branch condition of line 76.
RegimeBranch(b, regime) ==
    /\ regime # None
    /\ regime \in DOMAIN b.regime_indices
    /\ Len(b.regime_indices[regime]) > 0

\* PrioritizedReplayBuffer.sample: the set of possible outcomes, each the
\* buffer after the call and the values returned or the exception raised
\* (beta is <<>> when the call ended before line 95).
\* In the regime branch (lines 77-89) probs is never bound, so line 98 raises
\* UnboundLocalError after the frame counter has been advanced.
sample(b, batch_size, regime) ==
    IF RegimeBranch(b, regime)
    THEN LET regime_size  == Min(batch_size \div 2, Len(b.regime_indices[regime]))
             general_size == batch_size - regime_size
             regime_idx   == Choice(b, b.regime_indices[regime], regime_size)
             general_idx  == Choice(b, AllSlots(b), general_size)
         IN  IF regime_idx = {} \/ general_idx = {}
             THEN {[buf |-> b, status |-> "ValueError", indices |-> <<>>,
                    regime_size |-> regime_size, beta |-> <<>>, weights |-> <<>>]}
             ELSE {[buf |-> [b EXCEPT !.frame = NextFrame(b)],
                    status |-> "UnboundLocalError", indices |-> <<>>,
                    regime_size |-> regime_size, beta |-> <<Beta(b)>>,
                    weights |-> <<>>]}
    ELSE LET draws == Choice(b, AllSlots(b), batch_size)
         IN  IF draws = {}
             THEN {[buf |-> b, status |-> "ValueError", indices |-> <<>>,
                    regime_size |-> 0, beta |-> <<>>, weights |-> <<>>]}
             ELSE {[buf |-> [b EXCEPT !.frame = NextFrame(b)],
                    status |-> "ok", indices |-> d, regime_size |-> 0,
                    beta |-> <<Beta(b)>>,
                    weights |-> Normalised(RawWeights(b, d))] : d \in draws}

\* update_priorities followed by a normalisation: once the listed values are
\* written, every priority is divided by the largest one.
RECURSIVE update_priorities_rescaling(_, _)
update_priorities_rescaling(b, updates) ==
    IF updates = <<>>
    THEN [b EXCEPT !.priorities =
            [i \in DOMAIN b.priorities |->
                IF PrioritiesMax(b) > 1
                THEN b.priorities[i] \div PrioritiesMax(b)
                ELSE b.priorities[i]]]
    ELSE update_priorities_rescaling(
            [b EXCEPT !.priorities[updates[1][1]] = updates[1][2]],
            Tail(updates))

\* PrioritizedReplayBuffer.update_priorities: updates is the zip of indices
\* and priorities, applied in order.
RECURSIVE update_priorities(_, _)
update_priorities(b, updates) ==
    IF updates = <<>> THEN b
    ELSE update_priorities(
            [b EXCEPT !.priorities[updates[1][1]] = updates[1][2]],
            Tail(updates))

\* PrioritizedReplayBuffer.__len__
BufLen(b) == Len(b.buffer)

-----------------------------------------------------------------------------
(* Operations on the buffer as steps. *)

Push(regime) ==
    /\ pushed < MaxPushes
    /\ rb' = push(rb, Transition(pushed + 1, regime))
    /\ pushed' = pushed + 1
    /\ ret' = [NoCall EXCEPT !.op = "push", !.regime = regime, !.slot = rb.position]
    /\ UNCHANGED <<net, agent, disk, loaded, grown, calls>>

Sample(batch_size, regime) ==
    /\ \E out \in sample(rb, batch_size, regime) :
          /\ rb' = out.buf
          /\ ret' = [NoCall EXCEPT !.op = "sample", !.status = out.status,
                                   !.regime = regime, !.batch_size = batch_size,
                                   !.indices = out.indices,
                                   !.regime_size = out.regime_size,
                                   !.beta = out.beta, !.weights = out.weights]
    /\ UNCHANGED <<net, agent, disk, loaded, pushed, grown, calls>>

UpdatePriorities(updates) ==
    /\ rb' = update_priorities(rb, updates)
    /\ ret' = [NoCall EXCEPT !.op = "update_priorities", !.updates = updates]
    /\ UNCHANGED <<net, agent, disk, loaded, pushed, grown, calls>>

\* The (index, priority) lists a caller may pass: indices sample can return
\* (occupied slots), non-negative priorities.
UpdateLists(b) ==
    UNION {[1..n -> (0..(BufLen(b) - 1)) \X PriorityValues] : n \in 1..MaxUpdates}

-----------------------------------------------------------------------------
(* ProgressiveNetwork *)


\* The parameters of one stage's layers: the stage they were initialised for
\* and the number of optimizer steps applied to them since.
StageParams(k, steps) == [stage |-> k, steps |-> steps]

\* The stages __init__ builds: stage 1 always, stage 2 if max_stages >= 2,
\* stage 3 if max_stages >= 3, and none beyond.
BuiltStages(max_stages) ==
    <<StageParams(1, 0)>>
        \o (IF max_stages >= 2 THEN <<StageParams(2, 0)>> ELSE <<>>)
        \o (IF max_stages >= 3 THEN <<StageParams(3, 0)>> ELSE <<>>)

\* ProgressiveNetwork.__init__
NewNetwork(stage, max_stages) ==
    [stage |-> stage, max_stages |-> max_stages, networks |-> BuiltStages(max_stages)]

\* ProgressiveNetwork.forward: network = self.networks[self.stage - 1]; the
\* result names the parameter set used, or the IndexError of the lookup.
forward(n) ==
    IF n.stage - 1 < Len(n.networks)
    THEN [status |-> "ok", used |-> n.networks[n.stage].stage]
    ELSE [status |-> "IndexError", used |-> 0]

\* increase_complexity with the bound test off by one (<= for <).
increase_complexity_past_max(n) ==
    IF n.stage <= n.max_stages
    THEN [net |-> [n EXCEPT !.stage = n.stage + 1], snapshot |-> n.networks]
    ELSE [net |-> n, snapshot |-> <<>>]

\* increase_complexity warm-starting the next stage from the previous one.
increase_complexity_copying(n) ==
    IF n.stage < n.max_stages
    THEN [net |-> [n EXCEPT !.stage = n.stage + 1,
                            !.networks = [k \in 1..Len(n.networks) |->
                                            IF k = n.stage + 1 THEN n.networks[n.stage]
                                            ELSE n.networks[k]]],
          snapshot |-> n.networks]
    ELSE [net |-> n, snapshot |-> <<>>]

\* ProgressiveNetwork.increase_complexity: the network afterwards and the
\* value returned (the deepcopy of state_dict(), or <<>> for None).
increase_complexity(n) ==
    IF n.stage < n.max_stages
    THEN [net |-> [n EXCEPT !.stage = n.stage + 1], snapshot |-> n.networks]
    ELSE [net |-> n, snapshot |-> <<>>]

\* optimizer.step() after a backward pass through forward (lines 593-595):
\* only the layers of the active stage received gradients.
optimizer_step(n) ==
    [n EXCEPT !.networks[n.stage].steps = @ + 1]

-----------------------------------------------------------------------------
(* ProgressivePolicyNetwork and HierarchicalCriticNetwork, as far as the   *)
(* orchestrator's bookkeeping reads and writes them.                       *)

\* self.max_transition_buffer = 10
max_transition_buffer == 10

\* The regimes that have a batch-normalisation layer: for regime in [1, 2, 3].
regime_bn == {1, 2, 3}

\* The draws of torch.randn_like(mean) in forward, two of them named.
NoiseDraws == {1, 2}

\* The masks nn.Dropout(p=0.1) draws in training mode, two of them named;
\* NoMask is the identity it applies in evaluation mode.
MaskDraws == {1, 2}

NoMask == 0

\* ProgressivePolicyNetwork.__init__: the ProgressiveNetwork fields, the
\* nn.Module training flag, the global temperature log_alpha (kept as the
\* number of optimizer steps applied to it), the per-regime temperatures
\* (regime -> the value copied at creation and the steps applied since) and
\* the smoothing state.
NewPolicy(stage, max_stages) ==
    [stage |-> stage, max_stages |-> max_stages,
     networks |-> BuiltStages(max_stages),
     training |-> TRUE,
     log_alpha |-> 0,
     regime_log_alphas |-> [r \in {} |-> 0],
     last_regime |-> None,
     regime_transition_buffer |-> <<>>]

\* forward's smoothing without the pop(0): the transition buffer keeps every
\* pair.
policy_smoothing_unbounded(p, regime) ==
    IF regime = None
    THEN [policy |-> p, status |-> "ok", scaled |-> FALSE]
    ELSE IF regime \in regime_bn /\ p.training
    THEN [policy |-> p, status |-> "ValueError", scaled |-> FALSE]
    ELSE LET changed == p.last_regime # None /\ p.last_regime # regime
             buf1    == IF changed
                        THEN Append(p.regime_transition_buffer, <<p.last_regime, regime>>)
                        ELSE p.regime_transition_buffer
         IN  [policy |-> [p EXCEPT !.regime_transition_buffer = buf1,
                                   !.last_regime = regime],
              status |-> "ok",
              scaled |-> changed /\ Len(buf1) >= 3]

\* ProgressivePolicyNetwork.forward, lines 236-255, on a state of shape
\* (1, state_dim): BatchNorm1d in training mode rejects a batch of one value
\* per channel (ValueError) before the smoothing state is touched; otherwise
\* the smoothing state is updated and the input is scaled by 0.9 when the
\* regime changed and the transition buffer holds 3 entries or more.
policy_smoothing(p, regime) ==
    IF regime = None
    THEN [policy |-> p, status |-> "ok", scaled |-> FALSE]
    ELSE IF regime \in regime_bn /\ p.training
    THEN [policy |-> p, status |-> "ValueError", scaled |-> FALSE]
    ELSE LET changed == p.last_regime # None /\ p.last_regime # regime
             buf1    == IF changed
                        THEN Append(p.regime_transition_buffer, <<p.last_regime, regime>>)
                        ELSE p.regime_transition_buffer
             buf2    == IF Len(buf1) > max_transition_buffer THEN Tail(buf1) ELSE buf1
         IN  [policy |-> [p EXCEPT !.regime_transition_buffer = buf2,
                                   !.last_regime = regime],
              status |-> "ok",
              scaled |-> changed /\ Len(buf2) >= 3]

\* ProgressivePolicyNetwork.forward: the possible outcomes.  The mean is
\* named by what it is computed from: the parameters of the active stage,
\* whether the input was scaled, the dropout mask and the noise added to it
\* (line 269, in either mode).
policy_forward(p, regime) ==
    LET sm == policy_smoothing(p, regime)
    IN  IF sm.status # "ok"
        THEN {[policy |-> sm.policy, status |-> sm.status, mean |-> <<>>]}
        ELSE {[policy |-> sm.policy, status |-> "ok",
               mean |-> [params |-> sm.policy.networks[sm.policy.stage],
                         scaled |-> sm.scaled, mask |-> m, noise |-> n]] :
                 m \in (IF p.training THEN MaskDraws ELSE {NoMask}),
                 n \in NoiseDraws}

\* ProgressivePolicyNetwork.eval
policy_eval(p) == [p EXCEPT !.training = FALSE]

\* ProgressivePolicyNetwork.train
policy_train(p) == [p EXCEPT !.training = TRUE]

\* The value a fresh per-regime temperature starts from
\* (initial_value = self.log_alpha.item()) and the steps applied to it since.
RegimeAlpha(initial_value) == [initial |-> initial_value, steps |-> 0]

\* add_regime_alpha without the membership test: the temperature is created
\* anew from the global one on every call.
add_regime_alpha_resetting(p, regime) ==
    [p EXCEPT !.regime_log_alphas =
        [r \in DOMAIN @ \cup {regime} |->
            IF r = regime THEN RegimeAlpha(p.log_alpha) ELSE @[r]]]

\* ProgressivePolicyNetwork.add_regime_alpha
add_regime_alpha(p, regime) ==
    IF regime \notin DOMAIN p.regime_log_alphas
    THEN [p EXCEPT !.regime_log_alphas =
                [r \in DOMAIN @ \cup {regime} |->
                    IF r = regime THEN RegimeAlpha(p.log_alpha) ELSE @[r]]]
    ELSE p

\* ProgressivePolicyNetwork.update_alpha: one optimizer step on the regime's
\* temperature if it has one, on the global one otherwise.
update_alpha(p, regime) ==
    IF regime # None /\ regime \in DOMAIN p.regime_log_alphas
    THEN [p EXCEPT !.regime_log_alphas[regime].steps = @ + 1]
    ELSE [p EXCEPT !.log_alpha = @ + 1]

\* nn.Linear(256, 1): a freshly initialised head.  draw names the random
\* initialisation (the n-th layer built for this key in this critic) and
\* blends the polyak averaging steps applied to it since.
Linear(draw) == [in_features |-> 256, draw |-> draw, blends |-> 0]

\* HierarchicalCriticNetwork.__init__: regime_heads is the ModuleDict,
\* regime -> head.
NewCritic == [regime_heads |-> [r \in {} |-> Linear(1)]]

\* add_regime_head without the membership test: the head is built anew on
\* every call.
add_regime_head_reinitialising(c, regime) ==
    [c EXCEPT !.regime_heads =
        [r \in DOMAIN @ \cup {regime} |->
            IF r # regime THEN @[r]
            ELSE IF regime \in DOMAIN @ THEN Linear(@[regime].draw + 1)
            ELSE Linear(1)]]

\* HierarchicalCriticNetwork.add_regime_head
add_regime_head(c, regime) ==
    IF regime \notin DOMAIN c.regime_heads
    THEN [c EXCEPT !.regime_heads =
                [r \in DOMAIN @ \cup {regime} |->
                    IF r = regime THEN Linear(1) ELSE @[r]]]
    ELSE c

\* HierarchicalCriticNetwork.forward, lines 400-402: q_regime, named by the
\* head that computes it (<<>> for None).
critic_forward(c, regime) ==
    IF regime # None /\ regime \in DOMAIN c.regime_heads
    THEN <<c.regime_heads[regime]>>
    ELSE <<>>

\* _update_targets on one critic pair: every parameter of the target is
\* blended with the critic's parameter at the same place.
update_target(target, critic) ==
    [target EXCEPT !.regime_heads =
        [r \in DOMAIN @ |->
            IF r \in DOMAIN critic.regime_heads
            THEN [@[r] EXCEPT !.blends = @ + 1]
            ELSE @[r]]]

-----------------------------------------------------------------------------
(* ProgressivePolicyNetwork.sample on numbers.  A float is kept in         *)
(* thousandths, or is NaN; a tensor is a tuple of ActionDim floats.         *)

ActionDim == 2

Num(v) == [nan |-> FALSE, v |-> v]

NaN == [nan |-> TRUE, v |-> 0]

\* torch.clamp(x, lo, hi): NaN stays NaN.
clamp(x, lo, hi) ==
    IF x.nan THEN x
    ELSE Num(IF x.v < lo THEN lo ELSE IF x.v > hi THEN hi ELSE x.v)

\* x + y
Plus(x, y) == IF x.nan \/ y.nan THEN NaN ELSE Num(x.v + y.v)

\* x * y
Times(x, y) == IF x.nan \/ y.nan THEN NaN ELSE Num((x.v * y.v) \div 1000)

\* exp at the whole numbers of [-20, 2], in thousandths (a positive value
\* below one thousandth is kept as 1: exp is never 0 there).
ExpTable ==
    <<1, 1, 1, 1, 1, 1, 1, 1, 1, 1, 1, 1, 1, 1, 2, 7, 18, 50, 135, 368,
      1000, 2718, 7389>>

\* torch.exp(log_std) for a clamped log_std
Exp(x) == IF x.nan THEN NaN ELSE Num(ExpTable[(x.v \div 1000) + 21])

\* tanh at 0, 1, 2, 3, 4 and 5, in thousandths; from 5 on it rounds to 1.
TanhTable == <<0, 762, 964, 995, 999, 1000>>

\* tanh of a non-negative number: the table, interpolated between its points.
TanhAbs(v) ==
    IF v >= 5000 THEN 1000
    ELSE LET k == v \div 1000
         IN  TanhTable[k + 1]
                + ((TanhTable[k + 2] - TanhTable[k + 1]) * (v - 1000 * k)) \div 1000

\* torch.tanh(x)
Tanh(x) ==
    IF x.nan THEN NaN
    ELSE IF x.v >= 0 THEN Num(TanhAbs(x.v)) ELSE Num(0 - TanhAbs(0 - x.v))

\* torch.isnan(t).any()
isnan_any(t) == \E k \in 1..Len(t) : t[k].nan

\* The tail of forward, lines 263-275, on the network's output x (mean and
\* log_std halves) and the noise drawn at line 269.
forward_tail(x) ==
    [mean    |-> [k \in 1..ActionDim |->
                    clamp(Plus(x.mean[k], x.noise[k]), -10000, 10000)],
     log_std |-> [k \in 1..ActionDim |->
                    clamp(clamp(x.log_std[k], -20000, 2000), -20000, 2000)]]

\* Normal(mean, std) validates its arguments: real loc, positive scale.
NormalAccepts(mean, std) ==
    \A k \in 1..ActionDim : ~mean[k].nan /\ ~std[k].nan /\ std[k].v > 0

\* log_prob of lines 302-304, of which only this is kept: whether it is NaN
\* (an operand is NaN, or the logarithm's argument 1 - action^2 + 1e-6 is
\* negative).
log_prob_isnan(mean, std, x_t, action) ==
    \E k \in 1..ActionDim :
        \/ mean[k].nan \/ std[k].nan \/ x_t[k].nan \/ action[k].nan
        \/ 1000000 - action[k].v * action[k].v + 1 < 0

\* sample without the tanh of line 299.
policy_sample_unsquashed(x) ==
    LET fw    == forward_tail(x)
        mean0 == [k \in 1..ActionDim |-> clamp(fw.mean[k], -10000, 10000)]
        std0  == [k \in 1..ActionDim |-> Exp(clamp(fw.log_std[k], -20000, 2000))]
        bad   == isnan_any(mean0) \/ isnan_any(std0)
        mean  == IF bad THEN [k \in 1..ActionDim |-> Num(0)] ELSE mean0
        std   == IF bad THEN [k \in 1..ActionDim |-> Num(1000)] ELSE std0
        x_t   == [k \in 1..ActionDim |-> Plus(mean[k], Times(std[k], x.eps[k]))]
        action == x_t
        lpnan == log_prob_isnan(mean, std, x_t, action)
    IN  [status |-> IF NormalAccepts(mean, std) THEN "ok" ELSE "ValueError",
         action |-> action,
         log_prob |-> [nan |-> FALSE, fallback |-> lpnan],
         mean |-> mean, std |-> std]

\* sample without the fallbacks of lines 289-292 and 307-309.
policy_sample_propagating(x) ==
    LET fw    == forward_tail(x)
        mean  == [k \in 1..ActionDim |-> clamp(fw.mean[k], -10000, 10000)]
        std   == [k \in 1..ActionDim |-> Exp(clamp(fw.log_std[k], -20000, 2000))]
        x_t   == [k \in 1..ActionDim |-> Plus(mean[k], Times(std[k], x.eps[k]))]
        action == [k \in 1..ActionDim |-> Tanh(x_t[k])]
        lpnan == log_prob_isnan(mean, std, x_t, action)
    IN  [status |-> IF NormalAccepts(mean, std) THEN "ok" ELSE "ValueError",
         action |-> action,
         log_prob |-> [nan |-> lpnan, fallback |-> FALSE],
         mean |-> mean, std |-> std]

\* ProgressivePolicyNetwork.sample, for the network output, the noise and the
\* rsample draw eps given in x: how the call ends, the three values returned
\* (action, log_prob, mean) and the std sampled with.
policy_sample(x) ==
    LET fw    == forward_tail(x)
        mean0 == [k \in 1..ActionDim |-> clamp(fw.mean[k], -10000, 10000)]
        std0  == [k \in 1..ActionDim |-> Exp(clamp(fw.log_std[k], -20000, 2000))]
        bad   == isnan_any(mean0) \/ isnan_any(std0)
        mean  == IF bad THEN [k \in 1..ActionDim |-> Num(0)] ELSE mean0
        std   == IF bad THEN [k \in 1..ActionDim |-> Num(1000)] ELSE std0
        x_t   == [k \in 1..ActionDim |-> Plus(mean[k], Times(std[k], x.eps[k]))]
        action == [k \in 1..ActionDim |-> Tanh(x_t[k])]
        lpnan == log_prob_isnan(mean, std, x_t, action)
    IN  [status |-> IF NormalAccepts(mean, std) THEN "ok" ELSE "ValueError",
         action |-> action,
         log_prob |-> [nan |-> FALSE, fallback |-> lpnan],
         mean |-> mean, std |-> std]

\* What the network puts out for a finite state: NaN (NaN weights), values
\* far outside the clamped ranges, the upper end of the log_std range, and
\* an ordinary value.
NetworkOutputs == {NaN, Num(-50000), Num(2000), Num(50000)}

\* torch.randn_like(mean) * 0.01
MeanNoises == {Num(-30), Num(30)}

\* The standard normal draws of rsample.
EpsDraws == {Num(-4000), Num(4000)}

SampleInputs ==
    [mean    : [1..ActionDim -> NetworkOutputs],
     log_std : [1..ActionDim -> NetworkOutputs],
     noise   : [1..ActionDim -> MeanNoises],
     eps     : [1..ActionDim -> EpsDraws]]

-----------------------------------------------------------------------------
(* ProgressiveSAC *)

\* self.curriculum_thresholds = {1: 0.0, 2: 0.5, 3: 0.8}, in tenths.
curriculum_thresholds == <<0, 5, 8>>

\* The performance metrics tried, in tenths: below threshold[2], equal to
\* it, between the two, equal to threshold[3] (clearing both).
Metrics == {3, 5, 6, 8}

\* exploration_noise is 0.1 * 0.5^halvings * 0.9999^decays; the two exponents
\* are kept, so that halving and decaying are exact.
InitialNoise == [halvings |-> 0, decays |-> 0]

\* self.exploration_noise *= 2.0
Halve_doubling(noise) == [noise EXCEPT !.halvings = @ - 1]

\* self.exploration_noise *= 0.5
Halve(noise) == [noise EXCEPT !.halvings = @ + 1]

\* self.exploration_noise *= self.exploration_decay
Decay(noise) == [noise EXCEPT !.decays = @ + 1]

\* self.exploration_noise > self.min_exploration_noise, that is
\* 0.5^halvings * 0.9999^decays > 0.1: the number of decays is below
\* ln(0.1 * 2^halvings) / ln(0.9999), rounded up.
AboveFloor(noise) ==
    noise.decays < (CASE noise.halvings = 0 -> 23025
                      [] noise.halvings = 1 -> 16094
                      [] noise.halvings = 2 -> 9163
                      [] noise.halvings = 3 -> 2232
                      [] OTHER -> 0)

\* self.objective_weights, in thousandths.
InitialWeights == [return |-> 1000, risk |-> 500, regime_robustness |-> 300]

\* ProgressiveSAC.__init__
NewAgent(start_steps) ==
    [start_steps       |-> start_steps,
     policy            |-> NewPolicy(1, 3),
     critic1           |-> NewCritic,
     critic2           |-> NewCritic,
     critic1_target    |-> NewCritic,
     critic2_target    |-> NewCritic,
     total_steps       |-> 0,
     current_regime    |-> None,
     regime_history    |-> <<>>,
     regime_transitions |-> [k \in {} |-> 0],
     curriculum_stage  |-> 1,
     exploration_noise |-> InitialNoise,
     objective_weights |-> InitialWeights,
     use_ensemble      |-> FALSE,
     ensemble_policies |-> <<>>,
     ensemble_weights  |-> <<>>]

\* _handle_regime_transition giving the new regime a head in critic1 and
\* critic2 but not in their targets.
handle_regime_transition_skipping_targets(a, new_regime) ==
    LET key == <<a.current_regime, new_regime>>
        rt  == IF a.current_regime # None
               THEN [k \in DOMAIN a.regime_transitions \cup {key} |->
                        (IF k \in DOMAIN a.regime_transitions
                         THEN a.regime_transitions[k] ELSE 0)
                        + (IF k = key THEN 1 ELSE 0)]
               ELSE a.regime_transitions
    IN  [a EXCEPT !.regime_transitions = rt,
                  !.current_regime = new_regime,
                  !.regime_history = Append(@, new_regime),
                  !.policy = add_regime_alpha(@, new_regime),
                  !.critic1 = add_regime_head(@, new_regime),
                  !.critic2 = add_regime_head(@, new_regime)]

\* _handle_regime_transition without the current_regime is not None test:
\* the first regime seen records the pair (None, new_regime) as well.
handle_regime_transition_counting_first(a, new_regime) ==
    LET key == <<a.current_regime, new_regime>>
        rt  == [k \in DOMAIN a.regime_transitions \cup {key} |->
                    (IF k \in DOMAIN a.regime_transitions
                     THEN a.regime_transitions[k] ELSE 0)
                    + (IF k = key THEN 1 ELSE 0)]
    IN  [a EXCEPT !.regime_transitions = rt,
                  !.current_regime = new_regime,
                  !.regime_history = Append(@, new_regime),
                  !.policy = add_regime_alpha(@, new_regime),
                  !.critic1 = add_regime_head(@, new_regime),
                  !.critic2 = add_regime_head(@, new_regime),
                  !.critic1_target = add_regime_head(@, new_regime),
                  !.critic2_target = add_regime_head(@, new_regime)]

\* ProgressiveSAC._handle_regime_transition
handle_regime_transition(a, new_regime) ==
    LET key == <<a.current_regime, new_regime>>
        rt  == IF a.current_regime # None
               THEN [k \in DOMAIN a.regime_transitions \cup {key} |->
                        (IF k \in DOMAIN a.regime_transitions
                         THEN a.regime_transitions[k] ELSE 0)
                        + (IF k = key THEN 1 ELSE 0)]
               ELSE a.regime_transitions
    IN  [a EXCEPT !.regime_transitions = rt,
                  !.current_regime = new_regime,
                  !.regime_history = Append(@, new_regime),
                  !.policy = add_regime_alpha(@, new_regime),
                  !.critic1 = add_regime_head(@, new_regime),
                  !.critic2 = add_regime_head(@, new_regime),
                  !.critic1_target = add_regime_head(@, new_regime),
                  !.critic2_target = add_regime_head(@, new_regime)]

\* ProgressiveSAC.select_action: the possible outcomes, each the agent
\* afterwards, how the call ended, the branch taken ("mean", "uniform",
\* "policy+noise", "policy") and the mean the policy computed (<<>> when the
\* policy was not consulted or raised).  The regime transition is handled
\* before the policy is called, so it stays when the policy raises.
select_action(a, evaluate, regime) ==
    LET a1 == IF regime # None /\ regime # a.current_regime
              THEN handle_regime_transition(a, regime)
              ELSE a
    IN  IF evaluate
        THEN {[agent |-> [a1 EXCEPT !.policy = out.policy], status |-> out.status,
               mode |-> "mean", mean |-> out.mean] :
                 out \in policy_forward(a1.policy, regime)}
        ELSE IF a1.total_steps < a1.start_steps
        THEN {[agent |-> a1, status |-> "ok", mode |-> "uniform", mean |-> <<>>]}
        ELSE {LET a2 == [a1 EXCEPT !.policy = out.policy]
              IN  IF out.status # "ok"
                  THEN [agent |-> a2, status |-> out.status, mode |-> "policy",
                        mean |-> <<>>]
                  ELSE IF AboveFloor(a2.exploration_noise)
                  THEN [agent |-> [a2 EXCEPT !.exploration_noise = Decay(@)],
                        status |-> "ok", mode |-> "policy+noise", mean |-> out.mean]
                  ELSE [agent |-> a2, status |-> "ok", mode |-> "policy",
                        mean |-> out.mean] :
                 out \in policy_forward(a1.policy, regime)}

\* ProgressiveSAC._initialize_ensemble: num_models clones built at the
\* policy's stage, loaded with its parameters and perturbed; nothing when an
\* ensemble exists already.
initialize_ensemble(a, num_models) ==
    IF a.ensemble_policies = <<>>
    THEN [a EXCEPT
            !.ensemble_policies =
                [i \in 1..num_models |->
                    [NewPolicy(a.policy.stage, a.policy.max_stages)
                        EXCEPT !.networks = a.policy.networks]],
            !.ensemble_weights = [i \in 1..num_models |-> <<1, num_models>>]]
    ELSE a

\* increase_curriculum_stage comparing with > where the code has >=.
increase_curriculum_stage_strict(a, performance_metric) ==
    IF a.curriculum_stage < 3
        /\ performance_metric > curriculum_thresholds[a.curriculum_stage + 1]
    THEN [agent |-> [a EXCEPT !.curriculum_stage = @ + 1], returned |-> TRUE]
    ELSE [agent |-> a, returned |-> FALSE]

\* increase_curriculum_stage jumping to stage 3 when the metric clears the
\* last threshold.
increase_curriculum_stage_skipping(a, performance_metric) ==
    IF a.curriculum_stage < 3
        /\ performance_metric >= curriculum_thresholds[a.curriculum_stage + 1]
    THEN [agent |-> [a EXCEPT !.curriculum_stage =
                                IF performance_metric >= curriculum_thresholds[3]
                                THEN 3 ELSE @ + 1],
          returned |-> TRUE]
    ELSE [agent |-> a, returned |-> FALSE]

\* increase_curriculum_stage without the call of policy.increase_complexity().
increase_curriculum_stage_without_growth(a, performance_metric) ==
    IF a.curriculum_stage < 3
        /\ performance_metric >= curriculum_thresholds[a.curriculum_stage + 1]
    THEN LET a1 == [a EXCEPT !.curriculum_stage = @ + 1]
             a2 == IF a1.curriculum_stage = 2
                   THEN [a1 EXCEPT !.exploration_noise = Halve(@),
                                   !.objective_weights.risk = (@ * 3) \div 2]
                   ELSE IF a1.curriculum_stage = 3
                   THEN initialize_ensemble(
                            [a1 EXCEPT !.exploration_noise = Halve(@),
                                       !.objective_weights.regime_robustness = @ * 2,
                                       !.use_ensemble = TRUE], 3)
                   ELSE a1
         IN  [agent |-> a2, returned |-> TRUE]
    ELSE [agent |-> a, returned |-> FALSE]

\* ProgressiveSAC.increase_curriculum_stage: the agent afterwards and the
\* value returned.
increase_curriculum_stage(a, performance_metric) ==
    IF a.curriculum_stage < 3
        /\ performance_metric >= curriculum_thresholds[a.curriculum_stage + 1]
    THEN LET a1 == [a EXCEPT !.curriculum_stage = @ + 1,
                             !.policy = increase_complexity(@).net]
             a2 == IF a1.curriculum_stage = 2
                   THEN [a1 EXCEPT !.exploration_noise = Halve(@),
                                   !.objective_weights.risk = (@ * 3) \div 2]
                   ELSE IF a1.curriculum_stage = 3
                   THEN initialize_ensemble(
                            [a1 EXCEPT !.exploration_noise = Halve(@),
                                       !.objective_weights.regime_robustness = @ * 2,
                                       !.use_ensemble = TRUE], 3)
                   ELSE a1
         IN  [agent |-> a2, returned |-> TRUE]
    ELSE [agent |-> a, returned |-> FALSE]

\* ProgressiveSAC.save: the checkpoint written.  state_dict() of the policy
\* holds the layers of every stage (not the stage attribute, the training
\* flag, log_alpha, the regime_log_alphas dict or the smoothing state, which
\* are plain attributes); state_dict() of a critic holds its regime heads.
save(a) ==
    [policy            |-> a.policy.networks,
     critic1           |-> a.critic1.regime_heads,
     critic2           |-> a.critic2.regime_heads,
     critic1_target    |-> a.critic1_target.regime_heads,
     critic2_target    |-> a.critic2_target.regime_heads,
     total_steps       |-> a.total_steps,
     curriculum_stage  |-> a.curriculum_stage,
     exploration_noise |-> a.exploration_noise,
     objective_weights |-> a.objective_weights,
     regime_history    |-> a.regime_history,
     regime_transitions |-> a.regime_transitions]

\* load_state_dict taking the checkpoint's heads in place of the critic's
\* own, whatever the keys.
load_state_dict_replacing(c, state_dict) ==
    [critic |-> [c EXCEPT !.regime_heads = state_dict], status |-> "ok"]

\* nn.Module.load_state_dict(state_dict), strict: every parameter whose key
\* is on both sides is copied, then RuntimeError is raised if a key is
\* missing or unexpected.
load_state_dict(c, state_dict) ==
    [critic |-> [c EXCEPT !.regime_heads =
                    [r \in DOMAIN @ |->
                        IF r \in DOMAIN state_dict THEN state_dict[r] ELSE @[r]]],
     status |-> IF DOMAIN c.regime_heads = DOMAIN state_dict
                THEN "ok" ELSE "RuntimeError"]

\* load_state_dict (strict) of the four critics accepts the checkpoint iff
\* each critic has exactly the checkpoint's regime heads.
CriticsAccept(a, checkpoint) ==
    /\ load_state_dict(a.critic1, checkpoint.critic1).status = "ok"
    /\ load_state_dict(a.critic2, checkpoint.critic2).status = "ok"
    /\ load_state_dict(a.critic1_target, checkpoint.critic1_target).status = "ok"
    /\ load_state_dict(a.critic2_target, checkpoint.critic2_target).status = "ok"

\* ProgressiveSAC.load: the policy's parameters are loaded first, then the
\* critics in turn; the first critic whose heads differ raises RuntimeError
\* and the rest of load is skipped.
load(a, checkpoint) ==
    LET a1 == [a EXCEPT !.policy.networks = checkpoint.policy]
        l1 == load_state_dict(a.critic1, checkpoint.critic1)
        l2 == load_state_dict(a.critic2, checkpoint.critic2)
        l3 == load_state_dict(a.critic1_target, checkpoint.critic1_target)
        l4 == load_state_dict(a.critic2_target, checkpoint.critic2_target)
        a2 == [a1 EXCEPT !.critic1 = l1.critic]
        a3 == [a2 EXCEPT !.critic2 = l2.critic]
        a4 == [a3 EXCEPT !.critic1_target = l3.critic]
        a5 == [a4 EXCEPT !.critic2_target = l4.critic]
    IN  IF CriticsAccept(a, checkpoint)
        THEN [agent |-> [a5 EXCEPT
                            !.total_steps = checkpoint.total_steps,
                            !.curriculum_stage = checkpoint.curriculum_stage,
                            !.exploration_noise = checkpoint.exploration_noise,
                            !.objective_weights = checkpoint.objective_weights,
                            !.regime_history = checkpoint.regime_history,
                            !.regime_transitions = checkpoint.regime_transitions],
              status |-> "ok"]
        ELSE [agent |-> IF l1.status # "ok" THEN a2
                        ELSE IF l2.status # "ok" THEN a3
                        ELSE IF l3.status # "ok" THEN a4
                        ELSE a5,
              status |-> "RuntimeError"]

\* regimes[0] if len(set(regimes)) == 1 else None, for the batch drawn.
BatchRegime(b, indices) ==
    LET regimes == {b.buffer[indices[k] + 1].regime : k \in 1..Len(indices)}
    IN  IF Cardinality(regimes) = 1 THEN CHOOSE r \in regimes : TRUE ELSE None

\* ProgressiveSAC.update_parameters on the agent and its replay buffer: the
\* possible outcomes.  The batch is sampled; the critics and the policy take
\* an optimizer step (the regime heads belong to no optimizer: they were
\* built after lines 457-458), the temperature of the batch's regime is
\* updated, the targets are blended; the TD-errors are written back as
\* priorities.  The TD-errors have shape (batch, batch) (rewards of shape
\* (batch,) broadcast against Q-values of shape (batch, 1)), so each row is
\* written to one slot: a row of one element is stored, a longer row raises
\* ValueError.
update_parameters(a, b, batch_size, regime) ==
    UNION {
        IF out.status # "ok"
        THEN {[agent |-> a, buf |-> out.buf, status |-> out.status,
               indices |-> out.indices, updates |-> <<>>]}
        ELSE LET a1 == [a EXCEPT
                          !.policy = update_alpha(optimizer_step(@),
                                                  BatchRegime(out.buf, out.indices)),
                          !.critic1_target = update_target(@, a.critic1),
                          !.critic2_target = update_target(@, a.critic2)]
             IN  IF batch_size = 1
                 THEN {[agent |-> a1,
                        buf |-> update_priorities(out.buf, <<<<out.indices[1], td>>>>),
                        status |-> "ok", indices |-> out.indices,
                        updates |-> <<<<out.indices[1], td>>>>] : td \in PriorityValues}
                 ELSE {[agent |-> a1, buf |-> out.buf, status |-> "ValueError",
                        indices |-> out.indices, updates |-> <<>>]}
        : out \in sample(b, batch_size, regime)}

-----------------------------------------------------------------------------
(* Operations on the agent as steps; rb is agent.replay_buffer and disk     *)
(* the checkpoint file (<<>> while none was written).                       *)

NoDisk == <<>>

\* No second agent has been constructed.
NoAgent == <<>>

\* One more operation on the agent, within the budget of the model.
Called ==
    /\ calls < MaxCalls
    /\ calls' = calls + 1

\* select_action as a step, whoever calls it.
SelectActionCall(evaluate, regime) ==
    /\ \E out \in select_action(agent, evaluate, regime) :
          /\ agent' = out.agent
          /\ ret' = [NoCall EXCEPT !.op = "select_action", !.status = out.status,
                                   !.evaluate = evaluate, !.regime = regime,
                                   !.mode = out.mode, !.mean = out.mean]
    /\ UNCHANGED <<rb, net, disk, loaded, pushed, grown>>

SelectAction(evaluate, regime) ==
    /\ Called
    /\ SelectActionCall(evaluate, regime)

HandleRegimeTransition(regime) ==
    /\ Called
    /\ agent' = handle_regime_transition(agent, regime)
    /\ ret' = [NoCall EXCEPT !.op = "_handle_regime_transition", !.regime = regime]
    /\ UNCHANGED <<rb, net, disk, loaded, pushed, grown>>

IncreaseCurriculumStage(metric) ==
    LET out == increase_curriculum_stage(agent, metric)
    IN  /\ Called
        /\ agent' = out.agent
        /\ ret' = [NoCall EXCEPT !.op = "increase_curriculum_stage",
                                 !.metric = metric, !.returned = out.returned]
        /\ UNCHANGED <<rb, net, disk, loaded, pushed, grown>>

\* update_parameters as a step, whoever calls it; indices is the batch that
\* was sampled, updates the (slot, TD-error) pairs that were written.
UpdateParametersCall(batch_size, regime) ==
    /\ \E out \in update_parameters(agent, rb, batch_size, regime) :
          /\ agent' = out.agent
          /\ rb' = out.buf
          /\ ret' = [NoCall EXCEPT !.op = "update_parameters", !.status = out.status,
                                   !.batch_size = batch_size, !.regime = regime,
                                   !.indices = out.indices, !.updates = out.updates]
    /\ UNCHANGED <<net, disk, loaded, pushed, grown>>

UpdateParameters(batch_size, regime) ==
    /\ Called
    /\ UpdateParametersCall(batch_size, regime)

Save ==
    /\ Called
    /\ disk' = <<save(agent)>>
    /\ ret' = [NoCall EXCEPT !.op = "save"]
    /\ UNCHANGED <<rb, net, agent, loaded, pushed, grown>>

Load ==
    /\ Called
    /\ disk # NoDisk
    /\ agent' = load(agent, disk[1]).agent
    /\ ret' = [NoCall EXCEPT !.op = "load", !.status = load(agent, disk[1]).status]
    /\ UNCHANGED <<rb, net, disk, loaded, pushed, grown>>

\* agent.replay_buffer.push(...) as a step of a training loop.
PushCall(regime) ==
    /\ rb' = push(rb, Transition(pushed + 1, regime))
    /\ pushed' = pushed + 1
    /\ ret' = [NoCall EXCEPT !.op = "push", !.regime = regime, !.slot = rb.position]
    /\ UNCHANGED <<net, agent, disk, loaded, grown>>

\* train_progressive_sac: agent.replay_buffer.push(...)
TrainerPush(regime) ==
    /\ Called
    /\ PushCall(regime)

\* agent.total_steps += 1 as a step of a training loop.
CountStepCall ==
    /\ agent' = [agent EXCEPT !.total_steps = @ + 1]
    /\ ret' = [NoCall EXCEPT !.op = "total_steps"]
    /\ UNCHANGED <<rb, net, disk, loaded, pushed, grown>>

\* train_progressive_sac: agent.total_steps += 1
TrainerCountStep ==
    /\ Called
    /\ CountStepCall

\* evaluate_agent: agent.policy.eval()
PolicyEval ==
    /\ Called
    /\ agent' = [agent EXCEPT !.policy = policy_eval(@)]
    /\ ret' = [NoCall EXCEPT !.op = "policy.eval"]
    /\ UNCHANGED <<rb, net, disk, loaded, pushed, grown>>

\* evaluate_agent: agent.policy.train()
PolicyTrain ==
    /\ Called
    /\ agent' = [agent EXCEPT !.policy = policy_train(@)]
    /\ ret' = [NoCall EXCEPT !.op = "policy.train"]
    /\ UNCHANGED <<rb, net, disk, loaded, pushed, grown>>

\* beta_frames=100000, the default the agent's buffer is built with.
beta_frames_default == 100000

InitAgent ==
    /\ agent = NewAgent(StartSteps)
    /\ rb = NewBuffer(AgentBufferSize, beta_frames_default)
    /\ disk = NoDisk
    /\ loaded = NoAgent
    /\ net = NewNetwork(1, 1)
    /\ pushed = 0
    /\ grown = 0
    /\ calls = 0
    /\ ret = NoCall

NextAgent ==
    \/ \E e \in BOOLEAN, r \in Regimes \cup {None} : SelectAction(e, r)
    \/ \E r \in Regimes : HandleRegimeTransition(r)
    \/ \E m \in Metrics : IncreaseCurriculumStage(m)
    \/ \E n \in BatchSizes, r \in Regimes \cup {None} : UpdateParameters(n, r)
    \/ Save
    \/ Load
    \/ \E r \in Regimes : TrainerPush(r)
    \/ TrainerCountStep
    \/ PolicyEval
    \/ PolicyTrain

SpecAgent == InitAgent /\ [][NextAgent]_vars

\* The agent used without checkpoints: every operation but save and load.
NextOnline ==
    \/ \E e \in BOOLEAN, r \in Regimes \cup {None} : SelectAction(e, r)
    \/ \E r \in Regimes : HandleRegimeTransition(r)
    \/ \E m \in Metrics : IncreaseCurriculumStage(m)
    \/ \E n \in BatchSizes, r \in Regimes \cup {None} : UpdateParameters(n, r)
    \/ \E r \in Regimes : TrainerPush(r)
    \/ TrainerCountStep
    \/ PolicyEval
    \/ PolicyTrain

SpecOnline == InitAgent /\ [][NextOnline]_vars

-----------------------------------------------------------------------------
(* Replay: transitions are pushed into the agent's replay buffer and        *)
(* update_parameters is called on it, as the training loops do.             *)

ReplayPush(regime) ==
    /\ pushed < MaxPushes
    /\ PushCall(regime)
    /\ UNCHANGED calls

ReplayUpdate(batch_size, regime) ==
    /\ calls < MaxReplayUpdates
    /\ calls' = calls + 1
    /\ UpdateParametersCall(batch_size, regime)

InitReplay ==
    /\ agent = NewAgent(StartSteps)
    /\ rb = NewBuffer(MaxCapacity, beta_frames_default)
    /\ disk = NoDisk
    /\ loaded = NoAgent
    /\ net = NewNetwork(1, 1)
    /\ pushed = 0
    /\ grown = 0
    /\ calls = 0
    /\ ret = NoCall

NextReplay ==
    \/ \E r \in Regimes : ReplayPush(r)
    \/ \E n \in BatchSizes, r \in Regimes \cup {None} : ReplayUpdate(n, r)

SpecReplay == InitReplay /\ [][NextReplay]_vars

-----------------------------------------------------------------------------
(* Persistence across processes: an agent is used and saved; a second      *)
(* process then constructs a ProgressiveSAC of the same dimensions and      *)
(* loads the file into it.  agent stays as it was when it was saved.        *)

\* ProgressiveSAC(state_dim, action_dim, ...) in the reading process.
Construct ==
    /\ Called
    /\ disk # NoDisk
    /\ loaded = NoAgent
    /\ loaded' = <<NewAgent(agent.start_steps)>>
    /\ ret' = [NoCall EXCEPT !.op = "__init__"]
    /\ UNCHANGED <<rb, net, agent, disk, pushed, grown>>

\* load(path) on the second agent.
LoadConstructed ==
    /\ Called
    /\ loaded # NoAgent
    /\ loaded' = <<load(loaded[1], disk[1]).agent>>
    /\ ret' = [NoCall EXCEPT !.op = "load", !.status = load(loaded[1], disk[1]).status]
    /\ UNCHANGED <<rb, net, agent, disk, pushed, grown>>

\* The operations made on the first agent before it is saved.
BeforeSave ==
    /\ disk = NoDisk
    /\ \/ \E e \in BOOLEAN, r \in Regimes \cup {None} : SelectAction(e, r)
       \/ \E m \in Metrics : IncreaseCurriculumStage(m)
       \/ \E n \in BatchSizes, r \in Regimes \cup {None} : UpdateParameters(n, r)
       \/ \E r \in Regimes : TrainerPush(r)
       \/ TrainerCountStep
       \/ PolicyEval
       \/ PolicyTrain
       \/ Save

NextPersist ==
    \/ BeforeSave
    \/ Construct
    \/ LoadConstructed

SpecPersist == InitAgent /\ [][NextPersist]_vars

-----------------------------------------------------------------------------
(* The training loops: each environment step is select_action(state,        *)
(* regime=regime) followed by replay_buffer.push(..., regime).              *)
(* train_progressive_sac then counts the step (agent.total_steps += 1);     *)
(* simple_training_example does not.  An exception ends the loop.           *)

\* One more call of the loop, within the budget of the model.
LoopCalled ==
    /\ calls < MaxLoopCalls
    /\ calls' = calls + 1

LoopSelectAction ==
    /\ ret.op \in {"init", "push", "total_steps"}
    /\ LoopCalled
    /\ \E r \in Regimes : SelectActionCall(FALSE, r)

LoopPush ==
    /\ ret.op = "select_action"
    /\ ret.status = "ok"
    /\ LoopCalled
    /\ PushCall(ret.regime)

LoopCountStep ==
    /\ ret.op = "push"
    /\ LoopCalled
    /\ CountStepCall

NextTraining ==
    \/ LoopSelectAction
    \/ LoopPush
    \/ LoopCountStep

SpecTraining == InitAgent /\ [][NextTraining]_vars

-----------------------------------------------------------------------------
(* train_progressive_sac on a newly constructed agent: select_action, push, *)
(* the gated update_parameters(regime=regime), then total_steps += 1.  An   *)
(* exception ends the loop.                                                 *)

\* The gate with its first test left out: agent.total_steps %
\* agent.update_every == 0
update_gate_without_minimum(a) == a.total_steps % TrainerUpdateEvery = 0

\* agent.total_steps > agent.update_after and agent.total_steps %
\* agent.update_every == 0
update_gate(a) ==
    /\ a.total_steps > TrainerUpdateAfter
    /\ a.total_steps % TrainerUpdateEvery = 0

GatedSelectAction ==
    /\ ret.op \in {"init", "total_steps"}
    /\ agent.total_steps < MaxEnvSteps
    /\ \E r \in Regimes : SelectActionCall(FALSE, r)
    /\ UNCHANGED calls

GatedPush ==
    /\ ret.op = "select_action"
    /\ ret.status = "ok"
    /\ PushCall(ret.regime)
    /\ UNCHANGED calls

GatedUpdate ==
    /\ ret.op = "push"
    /\ update_gate(agent)
    /\ UpdateParametersCall(TrainerBatchSize, ret.regime)
    /\ UNCHANGED calls

GatedCountStep ==
    /\ \/ ret.op = "push" /\ ~update_gate(agent)
       \/ ret.op = "update_parameters" /\ ret.status = "ok"
    /\ CountStepCall
    /\ UNCHANGED calls

InitTrainer ==
    /\ agent = NewAgent(TrainerStartSteps)
    /\ rb = NewBuffer(TrainerBufferSize, beta_frames_default)
    /\ disk = NoDisk
    /\ loaded = NoAgent
    /\ net = NewNetwork(1, 1)
    /\ pushed = 0
    /\ grown = 0
    /\ calls = 0
    /\ ret = NoCall

NextTrainer ==
    \/ GatedSelectAction
    \/ GatedPush
    \/ GatedUpdate
    \/ GatedCountStep

SpecTrainer == InitTrainer /\ [][NextTrainer]_vars

-----------------------------------------------------------------------------
(* Operations on the network as steps. *)

Forward ==
    /\ ret' = [NoCall EXCEPT !.op = "forward", !.status = forward(net).status,
                             !.used = forward(net).used]
    /\ UNCHANGED <<rb, net, agent, disk, loaded, pushed, grown, calls>>

IncreaseComplexity ==
    /\ grown < MaxGrowCalls
    /\ net' = increase_complexity(net).net
    /\ grown' = grown + 1
    /\ ret' = [NoCall EXCEPT !.op = "increase_complexity",
                             !.snapshot = increase_complexity(net).snapshot]
    /\ UNCHANGED <<rb, agent, disk, loaded, pushed, calls>>

OptimizerStep ==
    /\ forward(net).status = "ok"
    /\ net.networks[net.stage].steps < MaxTrainSteps
    /\ net' = optimizer_step(net)
    /\ ret' = [NoCall EXCEPT !.op = "optimizer_step"]
    /\ UNCHANGED <<rb, agent, disk, loaded, pushed, grown, calls>>

InitNetwork ==
    /\ \E m \in 1..MaxStagesArg : net = NewNetwork(1, m)
    /\ grown = 0
    /\ calls = 0
    /\ pushed = 0
    /\ ret = NoCall
    /\ rb = NewBuffer(1, 1)
    /\ agent = NewAgent(0)
    /\ disk = NoDisk
    /\ loaded = NoAgent

NextNetwork ==
    \/ Forward
    \/ IncreaseComplexity
    \/ OptimizerStep

SpecNetwork == InitNetwork /\ [][NextNetwork]_vars

-----------------------------------------------------------------------------
(* The buffer alone. *)

InitBuffer ==
    /\ \E c \in 1..MaxCapacity, bf \in 1..MaxBetaFrames : rb = NewBuffer(c, bf)
    /\ pushed = 0
    /\ grown = 0
    /\ calls = 0
    /\ ret = NoCall
    /\ net = NewNetwork(1, 1)
    /\ agent = NewAgent(0)
    /\ disk = NoDisk
    /\ loaded = NoAgent

NextBuffer ==
    \/ \E r \in Regimes : Push(r)
    \/ \E n \in BatchSizes, r \in Regimes \cup {None} : Sample(n, r)
    \/ \E u \in UpdateLists(rb) : UpdatePriorities(u)

SpecBuffer == InitBuffer /\ [][NextBuffer]_vars

-----------------------------------------------------------------------------
(* The policy's sample alone: the inputs are drawn, then sample is applied. *)

PolicySample ==
    /\ ret.op = "init"
    /\ ret' = [ret EXCEPT !.op = "policy.sample",
                          !.status = policy_sample(ret.input).status,
                          !.sampled = policy_sample(ret.input)]
    /\ UNCHANGED <<rb, net, agent, disk, loaded, pushed, grown, calls>>

InitSample ==
    /\ \E x \in SampleInputs : ret = [NoCall EXCEPT !.input = x]
    /\ pushed = 0
    /\ grown = 0
    /\ calls = 0
    /\ rb = NewBuffer(1, 1)
    /\ net = NewNetwork(1, 1)
    /\ agent = NewAgent(0)
    /\ disk = NoDisk
    /\ loaded = NoAgent

NextSample == PolicySample

SpecSample == InitSample /\ [][NextSample]_vars

-----------------------------------------------------------------------------
(* select_action on numbers: the action it returns for the network output,  *)
(* the noise and the draws given, in each of its modes.                     *)

\* np.random.uniform(-1, 1): the two ends of [-1, 1).
UniformDraws == {Num(-1000), Num(999)}

\* np.random.normal(0, self.exploration_noise), three deviations out at 0.1.
ExplorationDraws == {Num(-300), Num(300)}

\* ProgressiveSAC.select_action, lines 503-519, on numbers: x is what the
\* policy's sample is computed from, u the uniform draw and g the
\* exploration-noise draw.
select_action_value(a, evaluate, x, u, g) ==
    LET s == policy_sample(x)
    IN  IF evaluate
        THEN [status |-> s.status, mode |-> "mean",
              action |-> IF s.status = "ok" THEN s.mean ELSE <<>>]
        ELSE IF a.total_steps < a.start_steps
        THEN [status |-> "ok", mode |-> "uniform", action |-> u]
        ELSE IF s.status # "ok"
        THEN [status |-> s.status, mode |-> "policy", action |-> <<>>]
        ELSE IF AboveFloor(a.exploration_noise)
        THEN [status |-> "ok", mode |-> "policy+noise",
              action |-> [k \in 1..ActionDim |->
                            clamp(Plus(s.action[k], g[k]), -1000, 1000)]]
        ELSE [status |-> "ok", mode |-> "policy", action |-> s.action]

SelectActionValue(evaluate, u, g) ==
    /\ ret.op = "init"
    /\ LET out == select_action_value(agent, evaluate, ret.input, u, g)
       IN  ret' = [ret EXCEPT !.op = "select_action", !.status = out.status,
                              !.evaluate = evaluate, !.mode = out.mode,
                              !.action = out.action]
    /\ UNCHANGED <<rb, net, agent, disk, loaded, pushed, grown, calls>>

\* The agents select_action is tried on: in the pure-exploration phase
\* (total_steps 0 < start_steps), past it with the initial noise, and past
\* it with the noise decayed below the floor by 23025 earlier calls.
InitAction ==
    /\ \E x \in SampleInputs : ret = [NoCall EXCEPT !.input = x]
    /\ agent \in {NewAgent(StartSteps), NewAgent(0),
                  [NewAgent(0) EXCEPT !.exploration_noise.decays = 23025]}
    /\ pushed = 0
    /\ grown = 0
    /\ calls = 0
    /\ rb = NewBuffer(1, 1)
    /\ net = NewNetwork(1, 1)
    /\ disk = NoDisk
    /\ loaded = NoAgent

NextAction ==
    \E e \in BOOLEAN, u \in [1..ActionDim -> UniformDraws],
       g \in [1..ActionDim -> ExplorationDraws] : SelectActionValue(e, u, g)

SpecAction == InitAction /\ [][NextAction]_vars

-----------------------------------------------------------------------------
(* Claims about the buffer, checked under SpecBuffer. *)

\* The slots whose stored transition is tagged regime r.
SlotsHolding(b, r) == {i \in 0..(BufLen(b) - 1) : b.buffer[i + 1].regime = r}

\* C1: after every push the slot just written is listed under the pushed
\* regime and under no other regime, and no position is ever listed under two
\* regimes.
OneSlotOneRegime ==
    /\ ret.op = "push" =>
          /\ ret.regime \in DOMAIN rb.regime_indices
          /\ InList(ret.slot, rb.regime_indices[ret.regime])
          /\ \A r \in DOMAIN rb.regime_indices \ {ret.regime} :
                ~InList(ret.slot, rb.regime_indices[r])
    /\ \A r1, r2 \in DOMAIN rb.regime_indices :
          r1 # r2 => \A i \in 0..(rb.capacity - 1) :
                        ~(InList(i, rb.regime_indices[r1]) /\ InList(i, rb.regime_indices[r2]))

\* C2: on a non-empty buffer, sample(batch_size) without a regime filter
\* completes and returns exactly batch_size indices of occupied slots.
UnfilteredSampleCompletes ==
    (ret.op = "sample" /\ ret.regime = None /\ BufLen(rb) > 0) =>
        /\ ret.status = "ok"
        /\ Len(ret.indices) = ret.batch_size
        /\ \A k \in 1..Len(ret.indices) : ret.indices[k] \in 0..(BufLen(rb) - 1)

\* C3: when regime r holds k >= 1 slots, sample(batch_size, regime=r) returns
\* batch_size items of which at least min(batch_size // 2, k) hold regime r.
RegimeSampleSplitsBatch ==
    (ret.op = "sample" /\ ret.regime # None /\ SlotsHolding(rb, ret.regime) # {}) =>
        /\ ret.status = "ok"
        /\ Len(ret.indices) = ret.batch_size
        /\ Cardinality({k \in 1..Len(ret.indices) :
                            ret.indices[k] \in SlotsHolding(rb, ret.regime)})
              >= Min(ret.batch_size \div 2, Cardinality(SlotsHolding(rb, ret.regime)))

-----------------------------------------------------------------------------
(* Claims about ProgressiveNetwork, checked under SpecNetwork. *)

\* C8: from stage 1, after n calls of increase_complexity the stage is
\* min(1 + n, max_stages): max_stages calls advance exactly max_stages - 1
\* times and the remaining call changes nothing; the stage stays within
\* [1, max_stages].
StageAfterGrowCalls ==
    /\ net.stage = Min(1 + grown, net.max_stages)
    /\ net.stage \in 1..net.max_stages
    /\ (ret.op = "increase_complexity" /\ grown >= net.max_stages) => ret.snapshot = <<>>
    /\ (ret.op = "increase_complexity" /\ grown < net.max_stages) => ret.snapshot # <<>>

\* C8 witness: the call number max_stages has been made and was the no-op.
GrownToMaxReached ==
    /\ ret.op = "increase_complexity"
    /\ net.max_stages >= 3
    /\ grown = net.max_stages
    /\ ret.snapshot = <<>>

\* C9: increase_complexity leaves every stage's parameters alone: below
\* max_stages it changes the stage index only and returns the parameters as
\* they were; at max_stages it raises nothing, returns None and changes
\* nothing.
GrowthKeepsParameters ==
    [][ret'.op = "increase_complexity" =>
          /\ ret'.status = "ok"
          /\ net'.networks = net.networks
          /\ net'.max_stages = net.max_stages
          /\ IF net.stage < net.max_stages
             THEN net'.stage = net.stage + 1 /\ ret'.snapshot = net.networks
             ELSE net' = net /\ ret'.snapshot = <<>>]_vars

\* C9 witness: a trained network has grown and another call has hit the
\* maximum.
GrownAfterTraining ==
    /\ ret.op = "increase_complexity"
    /\ net.stage = net.max_stages
    /\ net.stage >= 2
    /\ ret.snapshot = <<>>
    /\ \E k \in 1..Len(net.networks) : net.networks[k].steps > 0

\* C10: a network holds exactly max_stages stage implementations, and at
\* every stage reached the forward pass finds the active stage's parameter
\* set and uses that one.
EveryStageIsBuilt ==
    /\ Len(net.networks) = net.max_stages
    /\ ret.op = "forward" => (ret.status = "ok" /\ ret.used = net.stage)

-----------------------------------------------------------------------------
(* Claims about ProgressiveSAC, checked under SpecAgent. *)

\* The thresholds the claims name, {1: 0.0, 2: 0.5, 3: 0.8}, in tenths.
ClaimedThreshold(stage) == CASE stage = 1 -> 0 [] stage = 2 -> 5 [] stage = 3 -> 8

\* C4: increase_curriculum_stage(metric) advances iff the stage is below 3
\* and metric >= threshold[stage + 1]; an advancing call raises the stage by
\* exactly one and returns True; any other call returns False and changes
\* nothing of the agent.
AdvanceIffThresholdMet ==
    [][ret'.op = "increase_curriculum_stage" =>
          IF agent.curriculum_stage < 3
                /\ ret'.metric >= ClaimedThreshold(agent.curriculum_stage + 1)
          THEN /\ agent'.curriculum_stage = agent.curriculum_stage + 1
               /\ ret'.returned = TRUE
          ELSE /\ ret'.returned = FALSE
               /\ agent' = agent]_vars

\* C4 witness: a metric clearing both thresholds has advanced stage 1 to
\* stage 2 only.
AdvancedOneStageOnly ==
    /\ ret.op = "increase_curriculum_stage"
    /\ ret.returned
    /\ ret.metric >= ClaimedThreshold(3)
    /\ agent.curriculum_stage = 2

\* C5 as stated: over all orchestrator operations, load included, the
\* curriculum stage is in {1,2,3}, never decreases and changes only in an
\* increase_curriculum_stage call.
StageChangesOnlyByAdvance ==
    [][/\ agent'.curriculum_stage \in {1, 2, 3}
       /\ agent'.curriculum_stage >= agent.curriculum_stage
       /\ agent'.curriculum_stage # agent.curriculum_stage
             => ret'.op = "increase_curriculum_stage"]_vars

\* C5 amended: the stage is in {1,2,3}; select_action, update_parameters,
\* _handle_regime_transition and save leave it unchanged,
\* increase_curriculum_stage leaves it or raises it by one, and a successful
\* load replaces it by the checkpoint's stage (a failed load leaves it).
StageChangesOnlyByAdvanceOrLoad ==
    [][/\ agent'.curriculum_stage \in {1, 2, 3}
       /\ ret'.op = "load" =>
             agent'.curriculum_stage =
                IF ret'.status = "ok" THEN disk[1].curriculum_stage
                ELSE agent.curriculum_stage
       /\ ret'.op # "load" =>
             /\ agent'.curriculum_stage >= agent.curriculum_stage
             /\ agent'.curriculum_stage # agent.curriculum_stage =>
                   /\ ret'.op = "increase_curriculum_stage"
                   /\ agent'.curriculum_stage = agent.curriculum_stage + 1]_vars

\* C5 witness: a load has put the stage back below the stage the policy had
\* grown to.
LoadLoweredStage ==
    /\ ret.op = "load"
    /\ ret.status = "ok"
    /\ agent.curriculum_stage < agent.policy.stage

\* C6: an advance from stage 1 to stage 2 halves the exploration noise,
\* multiplies the risk weight by 1.5, leaves the return and
\* regime_robustness weights alone and raises the policy's stage by one.
AdvanceToStageTwoEffects ==
    [][(ret'.op = "increase_curriculum_stage"
            /\ agent.curriculum_stage = 1 /\ agent'.curriculum_stage = 2) =>
          /\ agent'.exploration_noise.halvings = agent.exploration_noise.halvings + 1
          /\ agent'.exploration_noise.decays = agent.exploration_noise.decays
          /\ 2 * agent'.objective_weights.risk = 3 * agent.objective_weights.risk
          /\ agent'.objective_weights.return = agent.objective_weights.return
          /\ agent'.objective_weights.regime_robustness
                = agent.objective_weights.regime_robustness
          /\ agent'.policy.stage = agent.policy.stage + 1]_vars

\* C7: an advance from stage 2 to stage 3 halves the exploration noise,
\* doubles the regime_robustness weight, raises the policy's stage by one and
\* leaves an ensemble of 3 clones at the policy's stage with 3 equal weights
\* and use_ensemble set; no other step creates an ensemble or sets
\* use_ensemble, so both are empty/False until stage 3 is reached.
AdvanceToStageThreeEffects ==
    [][/\ (ret'.op = "increase_curriculum_stage"
              /\ agent.curriculum_stage = 2 /\ agent'.curriculum_stage = 3) =>
             /\ agent'.exploration_noise.halvings = agent.exploration_noise.halvings + 1
             /\ agent'.exploration_noise.decays = agent.exploration_noise.decays
             /\ agent'.objective_weights.regime_robustness
                   = 2 * agent.objective_weights.regime_robustness
             /\ agent'.policy.stage = agent.policy.stage + 1
             /\ agent'.use_ensemble
             /\ Len(agent'.ensemble_policies) = 3
             /\ \A i \in 1..Len(agent'.ensemble_policies) :
                   agent'.ensemble_policies[i].stage = agent'.policy.stage
             /\ agent'.ensemble_weights = <<<<1, 3>>, <<1, 3>>, <<1, 3>>>>
       /\ (agent'.use_ensemble # agent.use_ensemble
              \/ agent'.ensemble_policies # agent.ensemble_policies) =>
             (ret'.op = "increase_curriculum_stage" /\ agent'.curriculum_stage = 3)]_vars

-----------------------------------------------------------------------------
(* Claims about the per-regime parameters, checked under SpecAgent. *)

\* critic1, critic2 and the two targets of an agent.
Critics(a) == <<a.critic1, a.critic2, a.critic1_target, a.critic2_target>>

\* C11: add_regime_head(r) on a critic that has a head for r creates
\* nothing and leaves every head as it was, so that the critic's regime
\* output for r is computed by the same head before and after the call.
SecondAddRegimeHeadChangesNothing ==
    [][ret'.op = "_handle_regime_transition" =>
          \A i \in 1..4 :
             ret'.regime \in DOMAIN Critics(agent)[i].regime_heads =>
                /\ Critics(agent')[i].regime_heads = Critics(agent)[i].regime_heads
                /\ critic_forward(Critics(agent')[i], ret'.regime)
                      = critic_forward(Critics(agent)[i], ret'.regime)]_vars

\* C11 witness: _handle_regime_transition has been called a second time with
\* the same regime, whose head is there.
AddRegimeHeadCalledTwice ==
    /\ ret.op = "_handle_regime_transition"
    /\ Cardinality({k \in 1..Len(agent.regime_history) :
                        agent.regime_history[k] = ret.regime}) >= 2
    /\ \A i \in 1..4 : ret.regime \in DOMAIN Critics(agent)[i].regime_heads

\* C12: after select_action(state, evaluate, regime=r) with r not None has
\* returned, in any mode, the current regime is r, and r has a policy
\* temperature and a head in each of the four critics; the temperatures and
\* heads that existed before the call are the same afterwards.
SelectActionProvidesRegimeParameters ==
    [][(ret'.op = "select_action" /\ ret'.status = "ok" /\ ret'.regime # None) =>
          /\ agent'.current_regime = ret'.regime
          /\ ret'.regime \in DOMAIN agent'.policy.regime_log_alphas
          /\ \A r \in DOMAIN agent.policy.regime_log_alphas :
                agent'.policy.regime_log_alphas[r] = agent.policy.regime_log_alphas[r]
          /\ \A i \in 1..4 :
                /\ ret'.regime \in DOMAIN Critics(agent')[i].regime_heads
                /\ \A r \in DOMAIN Critics(agent)[i].regime_heads :
                      Critics(agent')[i].regime_heads[r] = Critics(agent)[i].regime_heads[r]]_vars

\* C12 witness: select_action has returned for a regime the agent had left
\* and come back to, whose temperature had been trained in between.
ReturnedToTrainedRegime ==
    /\ ret.op = "select_action"
    /\ ret.status = "ok"
    /\ ret.regime # None
    /\ agent.current_regime = ret.regime
    /\ Cardinality({k \in 1..Len(agent.regime_history) :
                        agent.regime_history[k] = ret.regime}) >= 2
    /\ ret.regime \in DOMAIN agent.policy.regime_log_alphas
    /\ agent.policy.regime_log_alphas[ret.regime].steps > 0

\* C13: no operation on the agent removes a per-regime parameter: in every
\* step the regimes that have a policy temperature, and the regimes that
\* have a head in each of the four critics, are kept.
RegimeParametersOnlyGrow ==
    [][/\ DOMAIN agent.policy.regime_log_alphas
             \subseteq DOMAIN agent'.policy.regime_log_alphas
       /\ \A i \in 1..4 :
             DOMAIN Critics(agent)[i].regime_heads
                \subseteq DOMAIN Critics(agent')[i].regime_heads]_vars

\* C13 witness: an agent holding the parameters of two regimes has loaded a
\* checkpoint and holds them still.
LoadedWithTwoRegimes ==
    /\ ret.op = "load"
    /\ ret.status = "ok"
    /\ DOMAIN agent.policy.regime_log_alphas = Regimes
    /\ \A i \in 1..4 : DOMAIN Critics(agent)[i].regime_heads = Regimes

-----------------------------------------------------------------------------
(* Claims about persistence, checked under SpecPersist. *)

\* A freshly constructed agent of the saved agent's dimensions.
Fresh == <<NewAgent(agent.start_steps)>>

\* The means select_action(state, evaluate=True, regime) can return for one
\* state, with the policy switched to evaluation mode.
EvalMeans(a, regime) ==
    {out.mean : out \in select_action([a EXCEPT !.policy = policy_eval(@)],
                                      TRUE, regime)}

\* C14: after save and load into a freshly constructed agent, for every
\* regime select_action(state, evaluate=True, regime) returns one and the
\* same action on the loaded agent and on the saved agent.
RoundTripKeepsEvaluationAction ==
    [][(ret'.op = "load" /\ loaded = Fresh) =>
          \A r \in Regimes \cup {None} :
             /\ EvalMeans(loaded'[1], r) = EvalMeans(agent, r)
             /\ Cardinality(EvalMeans(agent, r)) = 1]_vars

\* C15: after saving an agent whose curriculum has advanced and loading into
\* a freshly constructed agent, the loaded agent's policy stage is the saved
\* agent's policy stage, and is the restored curriculum stage.
LoadedPolicyStageIsSaved ==
    [][(ret'.op = "load" /\ ret'.status = "ok" /\ loaded = Fresh
            /\ agent.curriculum_stage > 1) =>
          /\ loaded'[1].policy.stage = agent.policy.stage
          /\ loaded'[1].policy.stage = loaded'[1].curriculum_stage]_vars

\* C16: for an agent saved after it has met one regime or more, load into a
\* freshly constructed agent completes, and the loaded agent then has the
\* saved agent's regime heads in all four critics and its per-regime policy
\* temperatures.
LoadRestoresRegimeParameters ==
    [][(ret'.op = "load" /\ loaded = Fresh /\ agent.regime_history # <<>>) =>
          /\ ret'.status = "ok"
          /\ \A i \in 1..4 :
                Critics(loaded'[1])[i].regime_heads = Critics(agent)[i].regime_heads
          /\ loaded'[1].policy.regime_log_alphas = agent.policy.regime_log_alphas]_vars

-----------------------------------------------------------------------------
(* Claims about the policy's sample, checked under SpecSample. *)

\* C17: every component of the action sample returns lies within [-1, 1],
\* also when the mean and log_std are at the ends of their clamped ranges.
SampledActionWithinBounds ==
    ret.op = "policy.sample" =>
        \A k \in 1..ActionDim :
            /\ ~ret.sampled.action[k].nan
            /\ ret.sampled.action[k].v >= -1000
            /\ ret.sampled.action[k].v <= 1000

\* C17 witness: the network's output was far above both clamped ranges, the
\* pre-squash value was 10 + 4 e^2, and the action returned is 1.
SampledAtTheExtreme ==
    /\ ret.op = "policy.sample"
    /\ ret.input.mean[1] = Num(50000)
    /\ ret.input.log_std[1] = Num(50000)
    /\ ret.input.eps[1] = Num(4000)
    /\ ret.sampled.mean[1].v > 10000 - 100
    /\ ret.sampled.std[1] = Num(7389)
    /\ ret.sampled.action[1] = Num(1000)

\* C18: when the network's mean or std contains NaN, sample replaces the
\* mean by 0 and the std by 1 before sampling; in every case it raises
\* nothing and none of action, log_prob and mean it returns is NaN.
SampleNeverReturnsNaN ==
    ret.op = "policy.sample" =>
        /\ ret.status = "ok"
        /\ (isnan_any(ret.input.mean) \/ isnan_any(ret.input.log_std)) =>
              \A k \in 1..ActionDim :
                 ret.sampled.mean[k] = Num(0) /\ ret.sampled.std[k] = Num(1000)
        /\ ~isnan_any(ret.sampled.action)
        /\ ~isnan_any(ret.sampled.mean)
        /\ ~ret.sampled.log_prob.nan

\* C18 witness: one component of the network's mean was NaN and the other
\* was not; both were replaced.
SampledFromNaNMean ==
    /\ ret.op = "policy.sample"
    /\ ret.input.mean[1].nan
    /\ ~ret.input.mean[2].nan
    /\ ~isnan_any(ret.input.log_std)
    /\ ret.sampled.mean = [k \in 1..ActionDim |-> Num(0)]

-----------------------------------------------------------------------------
(* Claims about the modes of select_action. *)

\* C19: with the policy in evaluation mode, select_action(state,
\* evaluate=True, regime) returns the same mean whenever it is called on the
\* same state and regime from the same internal state: every mean the call
\* can return is the one it returned.
EvaluationMeanIsDeterministic ==
    [][(ret'.op = "select_action" /\ ret'.evaluate /\ ~agent.policy.training) =>
          \A out \in select_action(agent, TRUE, ret'.regime) :
             out.mean = ret'.mean]_vars

\* C20: counting one environment step per select_action(evaluate=False)
\* followed by a push, a call made before start_steps environment steps
\* were taken returns a uniform random action without consulting the policy,
\* and a call made after start_steps environment steps were taken returns an
\* action sampled from the policy.
ExplorationEndsAfterStartSteps ==
    [][ret'.op = "select_action" =>
          /\ ret'.status = "ok"
          /\ IF pushed < agent.start_steps
             THEN ret'.mode = "uniform"
             ELSE ret'.mode \in {"policy", "policy+noise"}]_vars

-----------------------------------------------------------------------------
(* Claims about the priorities and the importance-sampling weights. *)

\* C21: whenever sample returns, with or without a regime filter, every
\* importance-sampling weight it returns is non-negative and the largest
\* weight of the batch equals 1.0: every weight is the positive weight of a
\* drawn priority divided by the weight of a priority no larger than it (so
\* it is in (0, 1]), and one of them is divided by itself.
WeightsNormalisedToOne ==
    (ret.op = "sample" /\ ret.status = "ok") =>
        /\ Len(ret.weights) = ret.batch_size
        /\ \A k \in 1..Len(ret.weights) :
              /\ ret.weights[k].prio > 0
              /\ ret.weights[k].over > 0
              /\ ret.weights[k].over <= ret.weights[k].prio
        /\ \E k \in 1..Len(ret.weights) : ret.weights[k].prio = ret.weights[k].over

\* C21 witness: a batch of two returned under a regime filter, its first
\* weight computed from a larger priority than its second.
SampledTwoDifferentWeights ==
    /\ ret.op = "sample"
    /\ ret.status = "ok"
    /\ ret.regime # None
    /\ ret.batch_size = 2
    /\ ret.weights[1].prio > ret.weights[2].prio

\* The largest priority among the slots that hold a transition.
OccupiedMax(b) ==
    CHOOSE m \in {b.priorities[i] : i \in 0..(BufLen(b) - 1)} :
        \A i \in 0..(BufLen(b) - 1) : b.priorities[i] <= m

\* C22: push writes the new transition at the current circular position
\* with priority equal to the maximum priority over the buffer just before
\* the push, or 1.0 when the buffer was empty; after the push no slot has a
\* larger priority than the slot just written.
PushWritesMaxPriority ==
    [][ret'.op = "push" =>
          /\ ret'.slot = rb.position
          /\ rb'.buffer[rb.position + 1] = Transition(pushed', ret'.regime)
          /\ rb'.priorities[rb.position] =
                (IF BufLen(rb) = 0 THEN 1 ELSE OccupiedMax(rb))
          /\ \A i \in DOMAIN rb'.priorities :
                rb'.priorities[i] <= rb'.priorities[rb.position]]_vars

\* C22 witness: a push into a buffer of two slots where the other slot had
\* been given priority 2: the written slot has priority 2 as well.
PushedAtRaisedMaximum ==
    /\ ret.op = "push"
    /\ rb.capacity = 2
    /\ BufLen(rb) = 2
    /\ rb.priorities[ret.slot] = 2
    /\ rb.priorities[1 - ret.slot] = 2

\* The value given for slot i by the last pair of the list that names it.
LastGiven(updates, i) ==
    updates[CHOOSE k \in 1..Len(updates) :
                /\ updates[k][1] = i
                /\ \A j \in (k + 1)..Len(updates) : updates[j][1] # i][2]

\* C23: update_priorities(indices, new_priorities) sets the priority of each
\* listed slot to exactly the given value, without normalisation or
\* rescaling, and leaves every other slot's priority, the stored transitions,
\* the circular position, the regime index and the beta frame counter
\* unchanged.
UpdatePrioritiesWritesListedOnly ==
    [][ret'.op = "update_priorities" =>
          /\ \A i \in DOMAIN rb.priorities :
                rb'.priorities[i] =
                    (IF \E k \in 1..Len(ret'.updates) : ret'.updates[k][1] = i
                     THEN LastGiven(ret'.updates, i)
                     ELSE rb.priorities[i])
          /\ rb'.buffer = rb.buffer
          /\ rb'.position = rb.position
          /\ rb'.regime_indices = rb.regime_indices
          /\ rb'.frame = rb.frame
          /\ rb'.capacity = rb.capacity
          /\ rb'.beta_frames = rb.beta_frames]_vars

\* C23 witness: of two stored transitions the first was given priority 2;
\* the second keeps the priority 1 its push gave it.
UpdatedOneSlotOfTwo ==
    /\ ret.op = "update_priorities"
    /\ ret.updates = <<(<<0, 2>>)>>
    /\ BufLen(rb) = 2
    /\ rb.priorities[0] = 2
    /\ rb.priorities[1] = 1

\* C24: after any sequence of pushes, for every regime r the index of r lists
\* exactly the slot positions whose stored transition is currently tagged r,
\* each position at most once: no duplicate entries and no stale entries for
\* slots that now hold another regime.
RegimeIndexIsExactSet ==
    \A r \in DOMAIN rb.regime_indices :
        /\ {rb.regime_indices[r][k] : k \in 1..Len(rb.regime_indices[r])}
              = SlotsHolding(rb, r)
        /\ \A j, k \in 1..Len(rb.regime_indices[r]) :
              rb.regime_indices[r][j] = rb.regime_indices[r][k] => j = k

\* C25: after any sequence of push and update_priorities calls with
\* non-negative priorities, TD-errors of exactly 0 included, the slot written
\* by the next push has strictly positive priority, so the new transition can
\* be sampled.
PushedSlotHasPositivePriority ==
    ret.op = "push" => rb.priorities[ret.slot] > 0

\* C26: the frame counter starts at 1, a sample call that gets to computing
\* beta advances it by exactly one until it reaches beta_frames, and it never
\* exceeds beta_frames (a call whose draw raises before that, and every
\* other operation, leaves it alone); the beta a call uses is the one of the
\* counter it found, so over successive calls it never decreases, never
\* exceeds 1.0, and is 1.0 on every call made once the counter has reached
\* beta_frames.
BetaAnnealing ==
    /\ rb.frame = 1
    /\ [][/\ rb'.frame <= rb'.beta_frames
          /\ Beta(rb).num * Beta(rb').den <= Beta(rb').num * Beta(rb).den
          /\ IF ret'.op = "sample" /\ ret'.status # "ValueError"
             THEN /\ rb'.frame = (IF rb.frame < rb.beta_frames
                                  THEN rb.frame + 1 ELSE rb.beta_frames)
                  /\ ret'.beta = <<Beta(rb)>>
                  /\ ret'.beta[1].num <= ret'.beta[1].den
                  /\ rb.frame = rb.beta_frames =>
                        ret'.beta[1].num = ret'.beta[1].den
             ELSE rb'.frame = rb.frame]_vars

\* C26 witness: a sample call that returned after finding the counter already
\* advanced to beta_frames = 2, and used beta = 1.0.
SampledAtFullBeta ==
    /\ ret.op = "sample"
    /\ ret.status = "ok"
    /\ rb.beta_frames = 2
    /\ rb.frame = 2
    /\ ret.beta[1].num = ret.beta[1].den

-----------------------------------------------------------------------------
(* Claims about update_parameters and the replay buffer. *)

\* C27: update_parameters(batch_size, regime) called on a buffer holding at
\* least batch_size transitions completes, every slot sampled for the batch
\* has its priority overwritten with a single non-negative TD-error
\* magnitude, and the priority of every slot not in the batch is unchanged.
UpdateParametersWritesTDErrors ==
    [][(ret'.op = "update_parameters" /\ BufLen(rb) >= ret'.batch_size) =>
          /\ ret'.status = "ok"
          /\ Len(ret'.indices) = ret'.batch_size
          /\ \A i \in DOMAIN rb.priorities :
                IF \E k \in 1..Len(ret'.indices) : ret'.indices[k] = i
                THEN /\ \E k \in 1..Len(ret'.updates) : ret'.updates[k][1] = i
                     /\ rb'.priorities[i] = LastGiven(ret'.updates, i)
                     /\ rb'.priorities[i] >= 0
                ELSE rb'.priorities[i] = rb.priorities[i]]_vars

-----------------------------------------------------------------------------
(* Claims about the exploration noise. *)

\* C28: across select_action, update_parameters and
\* increase_curriculum_stage calls the exploration noise never increases; it
\* is multiplied by the decay factor (once) only by a select_action call
\* with evaluate=False made after the pure-exploration phase (total_steps
\* >= start_steps), and halved (once) only by an increase_curriculum_stage
\* call that advances.
ExplorationNoiseOnlyDecays ==
    [][ret'.op \in {"select_action", "update_parameters",
                    "increase_curriculum_stage"} =>
          LET old == agent.exploration_noise
              new == agent'.exploration_noise
          IN  /\ new.halvings >= old.halvings
              /\ new.decays >= old.decays
              /\ new.decays # old.decays =>
                    /\ new = Decay(old)
                    /\ ret'.op = "select_action"
                    /\ ~ret'.evaluate
                    /\ agent.total_steps >= agent.start_steps
              /\ new.halvings # old.halvings =>
                    /\ new = Halve(old)
                    /\ ret'.op = "increase_curriculum_stage"
                    /\ ret'.returned
                    /\ agent'.curriculum_stage = agent.curriculum_stage + 1]_vars

\* C28 witness: an advancing increase_curriculum_stage halved a noise that
\* select_action had decayed before.
HalvedAfterDecay ==
    /\ ret.op = "increase_curriculum_stage"
    /\ ret.returned
    /\ agent.exploration_noise.halvings = 1
    /\ agent.exploration_noise.decays >= 1

-----------------------------------------------------------------------------
(* Exploration: an agent built with start_steps = 0, so that select_action  *)
(* consults the policy from the first call, is driven by select_action and  *)
(* increase_curriculum_stage alone, until the noise was decayed MaxDecays   *)
(* times.                                                                   *)

NoiseSelectAction(evaluate) ==
    /\ agent.exploration_noise.decays < MaxDecays
    /\ SelectActionCall(evaluate, None)
    /\ UNCHANGED calls

NoiseIncreaseCurriculumStage(metric) ==
    LET out == increase_curriculum_stage(agent, metric)
    IN  /\ agent' = out.agent
        /\ ret' = [NoCall EXCEPT !.op = "increase_curriculum_stage",
                                 !.metric = metric, !.returned = out.returned]
        /\ UNCHANGED <<rb, net, disk, loaded, pushed, grown, calls>>

InitNoise ==
    /\ agent = NewAgent(0)
    /\ rb = NewBuffer(AgentBufferSize, beta_frames_default)
    /\ disk = NoDisk
    /\ loaded = NoAgent
    /\ net = NewNetwork(1, 1)
    /\ pushed = 0
    /\ grown = 0
    /\ calls = 0
    /\ ret = NoCall

NextNoise ==
    \/ \E e \in BOOLEAN : NoiseSelectAction(e)
    \/ \E m \in Metrics : NoiseIncreaseCurriculumStage(m)

SpecNoise == InitNoise /\ [][NextNoise]_vars

\* C29: in every state reachable by any interleaving of select_action and
\* increase_curriculum_stage calls the exploration noise is at least
\* min_exploration_noise (0.1 * 0.5^halvings * 0.9999^decays is never equal
\* to 0.01, so at least and above are the same).
NoiseRespectsFloor == AboveFloor(agent.exploration_noise)

-----------------------------------------------------------------------------
(* Claims about the regime bookkeeping. *)

\* The sum of the counts of a transition table.
RECURSIVE SumCounts(_, _)
SumCounts(table, keys) ==
    IF keys = {} THEN 0
    ELSE LET k == CHOOSE x \in keys : TRUE
         IN  table[k] + SumCounts(table, keys \ {k})

\* The count the table holds for a pair, 0 when the pair is not in it.
CountOf(table, key) == IF key \in DOMAIN table THEN table[key] ELSE 0

\* C30: whenever regime_history is non-empty the sum of all counts in the
\* regime-transition table equals len(regime_history) - 1; a select_action
\* call records no pair for the first regime ever seen, and for a later
\* change it records exactly one pair (old, new), with old # new, and
\* appends new to the history; a load leaves the equation standing.
RegimeBookkeepingIsConsistent ==
    /\ [](agent.regime_history # <<>> =>
            SumCounts(agent.regime_transitions, DOMAIN agent.regime_transitions)
                = Len(agent.regime_history) - 1)
    /\ [][ret'.op = "select_action" =>
            IF ret'.regime # None /\ ret'.regime # agent.current_regime
            THEN /\ agent'.regime_history =
                        Append(agent.regime_history, ret'.regime)
                 /\ DOMAIN agent'.regime_transitions \subseteq
                        DOMAIN agent.regime_transitions
                            \cup {<<agent.current_regime, ret'.regime>>}
                 /\ \A key \in DOMAIN agent'.regime_transitions :
                        agent'.regime_transitions[key] =
                            CountOf(agent.regime_transitions, key)
                            + (IF key = <<agent.current_regime, ret'.regime>>
                               THEN 1 ELSE 0)
                 /\ \A key \in DOMAIN agent'.regime_transitions :
                        agent'.regime_transitions[key]
                                # CountOf(agent.regime_transitions, key)
                            => (key[1] # None /\ key[1] # key[2])
                 /\ agent.regime_history = <<>> =>
                        agent'.regime_transitions = agent.regime_transitions
            ELSE /\ agent'.regime_history = agent.regime_history
                 /\ agent'.regime_transitions = agent.regime_transitions]_vars

\* C30 witness: a load that succeeded and restored a history of two regimes
\* with its pair while the agent's current regime had moved on since the
\* save.
LoadedOlderRegimeHistory ==
    /\ ret.op = "load"
    /\ ret.status = "ok"
    /\ Len(agent.regime_history) >= 2
    /\ agent.current_regime # agent.regime_history[Len(agent.regime_history)]
    /\ SumCounts(agent.regime_transitions, DOMAIN agent.regime_transitions) >= 1

-----------------------------------------------------------------------------
(* Smoothing: the policy of a newly constructed agent is switched between   *)
(* its modes and called on one state at a time, as select_action calls it.  *)
(* ret.run counts the forward calls in a row that were passed the regime    *)
(* the policy had seen last.                                                *)

SmoothingForward(regime) ==
    /\ calls < MaxForwardCalls
    /\ calls' = calls + 1
    /\ \E out \in policy_forward(agent.policy, regime) :
          /\ agent' = [agent EXCEPT !.policy = out.policy]
          /\ ret' = [NoCall EXCEPT
                        !.op = "policy.forward", !.status = out.status,
                        !.regime = regime, !.mean = out.mean,
                        !.run = IF out.status = "ok" /\ regime # None
                                   /\ regime = agent.policy.last_regime
                                THEN Min(ret.run + 1, LongRun)
                                ELSE IF out.status = "ok" /\ regime # None
                                THEN 0 ELSE ret.run]
    /\ UNCHANGED <<rb, net, disk, loaded, pushed, grown>>

SmoothingEval ==
    /\ calls < MaxForwardCalls
    /\ calls' = calls + 1
    /\ agent' = [agent EXCEPT !.policy = policy_eval(@)]
    /\ ret' = [NoCall EXCEPT !.op = "policy.eval", !.run = ret.run]
    /\ UNCHANGED <<rb, net, disk, loaded, pushed, grown>>

SmoothingTrain ==
    /\ calls < MaxForwardCalls
    /\ calls' = calls + 1
    /\ agent' = [agent EXCEPT !.policy = policy_train(@)]
    /\ ret' = [NoCall EXCEPT !.op = "policy.train", !.run = ret.run]
    /\ UNCHANGED <<rb, net, disk, loaded, pushed, grown>>

NextSmoothing ==
    \/ \E r \in Regimes \cup {None} : SmoothingForward(r)
    \/ SmoothingEval
    \/ SmoothingTrain

SpecSmoothing == InitAgent /\ [][NextSmoothing]_vars

\* C31: after any sequence of policy forward calls the regime-transition
\* history holds at most 10 entries, every entry is a pair of two different
\* regimes, and last_regime is the most recent regime (not None) passed to a
\* forward call that returned; a returning call appends the pair (previous
\* regime, regime) when the two differ, dropping the oldest entry beyond 10,
\* and a call with regime None, like a call that raised, changes nothing.
SmoothingStateWellFormed ==
    /\ [](LET buf == agent.policy.regime_transition_buffer
          IN  /\ Len(buf) <= max_transition_buffer
              /\ \A k \in 1..Len(buf) :
                    /\ buf[k][1] \in Regimes
                    /\ buf[k][2] \in Regimes
                    /\ buf[k][1] # buf[k][2])
    /\ [][ret'.op = "policy.forward" =>
            LET p   == agent.policy
                q   == agent'.policy
                old == p.regime_transition_buffer
                new == q.regime_transition_buffer
            IN  IF ret'.regime = None \/ ret'.status # "ok"
                THEN q = p
                ELSE /\ q.last_regime = ret'.regime
                     /\ IF p.last_regime = None \/ p.last_regime = ret'.regime
                        THEN new = old
                        ELSE IF Len(old) < max_transition_buffer
                        THEN new = Append(old, <<p.last_regime, ret'.regime>>)
                        ELSE new = Append(Tail(old), <<p.last_regime, ret'.regime>>)]_vars

\* C31 witness: a forward call found the history full and dropped its oldest
\* entry, (1, 2), for the eleventh transition.
OldestTransitionDropped ==
    /\ ret.op = "policy.forward"
    /\ ret.status = "ok"
    /\ Len(agent.policy.regime_transition_buffer) = max_transition_buffer
    /\ agent.policy.regime_transition_buffer[1] = <<2, 1>>
    /\ agent.policy.regime_transition_buffer[max_transition_buffer] = <<1, 2>>
    /\ agent.policy.last_regime = 2

\* C32: a policy forward call down-scales its input only when the regime
\* passed differs from the previously seen regime and three or more of the
\* most recent transitions alternated between different regimes; a call
\* whose regime equals the previous one or is None never down-scales, and an
\* isolated regime change that follows a long run of calls in a single
\* regime (LongRun calls or more) does not down-scale.
SmoothingOnlyDuringChurn ==
    [][(ret'.op = "policy.forward" /\ ret'.status = "ok") =>
          LET changed == /\ ret'.regime # None
                         /\ agent.policy.last_regime # None
                         /\ agent.policy.last_regime # ret'.regime
          IN  /\ ret'.mean.scaled =>
                    /\ changed
                    /\ Len(agent'.policy.regime_transition_buffer) >= 3
              /\ ~changed => ~ret'.mean.scaled
              /\ (changed /\ ret.run >= LongRun) => ~ret'.mean.scaled]_vars

-----------------------------------------------------------------------------
(* Claims about the agent used without checkpoints, under SpecOnline. *)

\* C33: in every state reachable from a newly constructed ProgressiveSAC by
\* increase_curriculum_stage calls with arbitrary metrics, interleaved with
\* select_action and update_parameters, the policy's active stage equals the
\* curriculum stage.
PolicyStageIsCurriculumStage ==
    agent.policy.stage = agent.curriculum_stage

\* C33 witness: the agent advanced to curriculum stage 3, used between and
\* after the two advances.
AdvancedTwiceWhileUsed ==
    /\ ret.op = "select_action"
    /\ ret.status = "ok"
    /\ ret.mode \in {"policy", "policy+noise"}
    /\ agent.curriculum_stage = 3
    /\ agent.policy.stage = 3
    /\ agent.exploration_noise.decays >= 2

\* C34: in every state reachable from a newly constructed agent by
\* select_action, _handle_regime_transition, update_parameters and
\* increase_curriculum_stage, the four critics have identical sets of regime
\* heads, and that set equals the set of regimes with a policy temperature
\* and the set of regimes appearing in regime_history.
RegimeParametersAligned ==
    /\ \A i \in 1..4 :
          DOMAIN Critics(agent)[i].regime_heads = DOMAIN agent.critic1.regime_heads
    /\ DOMAIN agent.critic1.regime_heads = DOMAIN agent.policy.regime_log_alphas
    /\ DOMAIN agent.critic1.regime_heads =
          {agent.regime_history[k] : k \in 1..Len(agent.regime_history)}

\* C34 witness: update_parameters returned on an agent that has seen two
\* regimes and advanced a curriculum stage.
TrainedWithTwoRegimes ==
    /\ ret.op = "update_parameters"
    /\ ret.status = "ok"
    /\ DOMAIN agent.critic2_target.regime_heads = Regimes
    /\ DOMAIN agent.policy.regime_log_alphas = Regimes
    /\ agent.curriculum_stage >= 2

-----------------------------------------------------------------------------
(* Claims about the shape of the buffer, checked under SpecBuffer. *)

\* C35: after n pushes into a buffer of capacity C, len(buffer) = min(n, C),
\* the write position is n mod C (in [0, C-1]), and the buffer holds exactly
\* the last min(n, C) pushed transitions, the k-th push being stored in slot
\* (k - 1) mod C, so that each push beyond capacity overwrites the oldest
\* stored transition.
CircularBufferShape ==
    LET n    == pushed
        C    == rb.capacity
        kept == (n - Min(n, C) + 1)..n
    IN  /\ BufLen(rb) = Min(n, C)
        /\ rb.position = n % C
        /\ rb.position \in 0..(C - 1)
        /\ {rb.buffer[k].id : k \in 1..BufLen(rb)} = kept
        /\ \A id \in kept : rb.buffer[((id - 1) % C) + 1].id = id

\* C35 witness: the third push into a buffer of capacity 2 has overwritten
\* the first transition; the second is still stored.
OldestOverwritten ==
    /\ ret.op = "push"
    /\ pushed = 3
    /\ rb.capacity = 2
    /\ rb.buffer[1].id = 3
    /\ rb.buffer[2].id = 2
    /\ rb.position = 1

-----------------------------------------------------------------------------
(* Claims about the action select_action returns, checked under SpecAction. *)

\* C36: every action returned by select_action lies within [-1, 1]
\* component-wise in every mode: pure-exploration phase, policy sampling
\* with or without added exploration noise, and evaluate=True.
ReturnedActionWithinBounds ==
    (ret.op = "select_action" /\ ret.status = "ok") =>
        \A k \in 1..Len(ret.action) :
            /\ ~ret.action[k].nan
            /\ ret.action[k].v >= -1000
            /\ ret.action[k].v <= 1000

-----------------------------------------------------------------------------
(* Claims about the trainer, checked under SpecTrainer. *)

\* C37: in the train_progressive_sac loop on a newly constructed agent with
\* default settings, every call to update_parameters happens when the replay
\* buffer holds at least batch_size transitions: the batch asked for is no
\* larger than what is stored.
UpdateGatedByMinimumFill ==
    [][ret'.op = "update_parameters" =>
          /\ ret'.batch_size = TrainerBatchSize
          /\ BufLen(rb) >= ret'.batch_size
          /\ BufLen(rb) = Min(agent.total_steps + 1, rb.capacity)]_vars

\* C37 witness: the trainer has called update_parameters, the gate having
\* opened after update_after steps, on a buffer that was full.
TrainerCalledUpdate ==
    /\ ret.op = "update_parameters"
    /\ ret.batch_size = TrainerBatchSize
    /\ agent.total_steps > TrainerUpdateAfter
    /\ BufLen(rb) = TrainerBufferSize
    /\ pushed = agent.total_steps + 1

-----------------------------------------------------------------------------
(* Claims about evaluation, checked under SpecOnline. *)

\* C38: a select_action call with evaluate=True, made as evaluate_agent makes
\* it (the policy in evaluation mode, the detected regime passed), leaves
\* exploration_noise, total_steps, current_regime, regime_history and the
\* regime-transition count table exactly as they were before the call.
EvaluationLeavesBookkeeping ==
    [][(/\ ret'.op = "select_action"
        /\ ret'.evaluate
        /\ ~agent.policy.training) =>
          /\ agent'.exploration_noise = agent.exploration_noise
          /\ agent'.total_steps = agent.total_steps
          /\ agent'.current_regime = agent.current_regime
          /\ agent'.regime_history = agent.regime_history
          /\ agent'.regime_transitions = agent.regime_transitions]_vars

====
